---- MODULE Spec2Model ----
(***************************************************************************)
(* Resolution-and-caching engine of the Steam Cross-Platform Wishlist      *)
(* extension: the OpenCritic review-score client (reviewScoresClient.ts),  *)
(* the Wikidata availability resolver (resolver.ts) and the IGDB resolver  *)
(* and client (resolver.js, igdbClient.js).                                *)
(*                                                                         *)
(* Time is the value of Date.now() in milliseconds, counted from the start *)
(* of the run.  One step of the model is one turn of the event loop: the   *)
(* code that runs between two awaits on a timer, a network response or the *)
(* caller.  Names are sequences of one-character strings.                  *)
(***************************************************************************)
EXTENDS Integers, Sequences, FiniteSets, TLC

\* ------------------------------------------------------------------------
\* Bounds of the model
\* ------------------------------------------------------------------------
StartTime == 1
MaxMs == 28000
MaxJumps == 1
MaxCalls == 2
QueueMaxMs == 2500
QueueMaxCalls == 2
IgdbMaxMs == 1000
IgdbMaxCalls == 3
IgdbRateMaxMs == 1250
IgdbRateMaxCalls == 3
IgdbRetryMaxMs == 4500
IgdbRetryMaxCalls == 2
BatchMaxMs == 4000
BatchMaxCalls == 4
EntriesMaxMs == 1000
EntriesMaxCalls == 2
StorageMaxMs == 3000
StorageMaxCalls == 2
MaxNameLen == 3
MaxResults == 2
ClearMaxMs == 2000
ClearMaxCalls == 2
StatsMaxMs == 1000
StatsMaxCalls == 2
StatsMaxJumps == 1
TokenMaxMs == 600000
TokenMaxCalls == 3
TokenMaxSaves == 2
LiveMaxCalls == 2
WdMaxCalls == 2
WdMaxJumps == 1

\* ------------------------------------------------------------------------
\* Program constants (reviewScoresClient.ts)
\* ------------------------------------------------------------------------
REQUEST_DELAY_MS == 500
MAX_RETRIES == 3
INITIAL_BACKOFF_MS == 1000
DEFAULT_TTL_DAYS == 7
MS_PER_DAY == 24 * 60 * 60 * 1000
CACHE_KEY_PREFIX == "xcpw_review_"

\* ------------------------------------------------------------------------
\* Program constants (igdbClient.js)
\* ------------------------------------------------------------------------
IGDB_REQUEST_DELAY_MS == 250
IGDB_RETRY_WAIT_MS == 1000
PLATFORM_SWITCH == 130
PLATFORM_PS4 == 48
PLATFORM_PS5 == 167
PLATFORM_XBOX_ONE == 49
PLATFORM_XBOX_SERIES == 169
EXTERNAL_GAME_CATEGORY_STEAM == 1
WEBSITE_OFFICIAL == 1
WEBSITE_ESHOP == 16
WEBSITE_PLAYSTATION == 36
WEBSITE_XBOX == 37

\* JavaScript's null (a response body, a search result, a score), and "no time"
Null == [t |-> "null"]
NoTime == -1

\* ------------------------------------------------------------------------
\* Characters and strings
\* ------------------------------------------------------------------------
UpperToLower == [c \in {"A", "B", "C"} |->
                   CASE c = "A" -> "a" [] c = "B" -> "b" [] c = "C" -> "c"]
WordChars == {"a", "b", "c", "A", "B", "C", "3", "_"}
SpaceChars == {" ", "\t"}

toLowerCase(s) ==
    [i \in DOMAIN s |-> IF s[i] \in DOMAIN UpperToLower THEN UpperToLower[s[i]] ELSE s[i]]

IsWordChar(c) == c \in WordChars
IsSpaceChar(c) == c \in SpaceChars

\* s.replace(/\s+/g, r): every maximal run of whitespace becomes r
RECURSIVE replaceSpaceRuns(_, _)
replaceSpaceRuns(s, r) ==
    IF s = <<>> THEN <<>>
    ELSE IF IsSpaceChar(Head(s))
         THEN IF Len(s) > 1 /\ IsSpaceChar(s[2])
              THEN replaceSpaceRuns(Tail(s), r)
              ELSE r \o replaceSpaceRuns(Tail(s), r)
         ELSE <<Head(s)>> \o replaceSpaceRuns(Tail(s), r)

RECURSIVE trimStart(_)
trimStart(s) ==
    IF s # <<>> /\ IsSpaceChar(Head(s)) THEN trimStart(Tail(s)) ELSE s

RECURSIVE trimEnd(_)
trimEnd(s) ==
    IF s # <<>> /\ IsSpaceChar(s[Len(s)]) THEN trimEnd(SubSeq(s, 1, Len(s) - 1)) ELSE s

trim(s) == trimEnd(trimStart(s))

\* Mutant: only a prefix counts
includes_prefixOnly(s, t) == Len(t) <= Len(s) /\ SubSeq(s, 1, Len(t)) = t

includes(s, t) ==
    \E i \in 1..(Len(s) - Len(t) + 1) : SubSeq(s, i, i + Len(t) - 1) = t

\* s.split(' '): the pieces between single spaces, empty pieces included
RECURSIVE splitAcc(_, _)
splitAcc(s, cur) ==
    IF s = <<>> THEN <<cur>>
    ELSE IF Head(s) = " " THEN <<cur>> \o splitAcc(Tail(s), <<>>)
         ELSE splitAcc(Tail(s), Append(cur, Head(s)))

split(s) == splitAcc(s, <<>>)

SeqToSet(s) == {s[i] : i \in DOMAIN s}

\* ------------------------------------------------------------------------
\* Name matcher (reviewScoresClient.ts)
\* ------------------------------------------------------------------------
normalizeGameName(name) ==
    LET lower == toLowerCase(name)
        stripped == SelectSeq(lower, LAMBDA c : IsWordChar(c) \/ IsSpaceChar(c))
    IN  trim(replaceSpaceRuns(stripped, <<" ">>))

\* A similarity is the fraction n/d, kept as a record
Frac(n, d) == [n |-> n, d |-> d]
FracLess(x, y) == x.n * y.d < y.n * x.d
FracGeq(x, y) == x.n * y.d >= y.n * x.d

\* Mutant: no test for identical normalized names
calculateSimilarity_noIdentity(a, b) ==
    LET normalizedA == normalizeGameName(a)
        normalizedB == normalizeGameName(b)
        longer == IF Len(normalizedA) > Len(normalizedB) THEN normalizedA ELSE normalizedB
        shorter == IF Len(normalizedA) > Len(normalizedB) THEN normalizedB ELSE normalizedA
        wordsA == SeqToSet(split(normalizedA))
        wordsB == SeqToSet(split(normalizedB))
    IN  IF Len(longer) = 0 THEN Frac(1, 1)
        ELSE IF includes(longer, shorter) \/ includes(shorter, longer) THEN Frac(4, 5)
        ELSE Frac(Cardinality(wordsA \cap wordsB), Cardinality(wordsA \cup wordsB))

calculateSimilarity(a, b) ==
    LET normalizedA == normalizeGameName(a)
        normalizedB == normalizeGameName(b)
        longer == IF Len(normalizedA) > Len(normalizedB) THEN normalizedA ELSE normalizedB
        shorter == IF Len(normalizedA) > Len(normalizedB) THEN normalizedB ELSE normalizedA
        wordsA == SeqToSet(split(normalizedA))
        wordsB == SeqToSet(split(normalizedB))
    IN  IF normalizedA = normalizedB THEN Frac(1, 1)
        ELSE IF Len(longer) = 0 THEN Frac(1, 1)
        ELSE IF includes(longer, shorter) \/ includes(shorter, longer) THEN Frac(4, 5)
        ELSE Frac(Cardinality(wordsA \cap wordsB), Cardinality(wordsA \cup wordsB))

\* name.replace(/-+/g, '-')
RECURSIVE replaceHyphenRuns(_)
replaceHyphenRuns(s) ==
    IF s = <<>> THEN <<>>
    ELSE IF Head(s) = "-" /\ Len(s) > 1 /\ s[2] = "-"
         THEN replaceHyphenRuns(Tail(s))
         ELSE <<Head(s)>> \o replaceHyphenRuns(Tail(s))

createSlug(name) ==
    LET lower == toLowerCase(name)
        kept == SelectSeq(lower, LAMBDA c : IsWordChar(c) \/ IsSpaceChar(c) \/ c = "-")
    IN  trim(replaceHyphenRuns(replaceSpaceRuns(kept, <<"-">>)))

\* ------------------------------------------------------------------------
\* The world of the review-score client
\* ------------------------------------------------------------------------
Callers == {"c1", "c2"}
AppIds == {"10", "20"}
GameNames == {<<"A", "b">>, <<"c">>}

getReviewCacheKey(appid) == <<CACHE_KEY_PREFIX, appid>>

\* Platform availability: the items looked up, of which one has a manual
\* override, and the key of an item's row
AvailAppIds == {"10", "20", "30"}
getCacheKey(appid) == <<"xcpw_cache_", appid>>
StorageKeys == {getReviewCacheKey(a) : a \in AppIds}
               \cup {getCacheKey(a) : a \in AvailAppIds}
NoRow == [absent |-> TRUE]

\* What api.opencritic.com may answer to a search and to a detail request.
\* A body is null, an array of candidates, or an object that is no array.
Candidates == {[id |-> 1, name |-> <<"a", "b">>],
               [id |-> 2, name |-> <<"a", "b", " ", "c">>],
               [id |-> 3, name |-> <<"b", "_">>]}
JsonObject == [t |-> "object"]
JsonArray(v) == [t |-> "array", v |-> v]
SearchBodies == {Null, JsonObject, JsonArray(<<>>)}
                \cup {JsonArray(<<c>>) : c \in Candidates}
\* topCriticScore is kept in tenths: 905 is 90.5, -10 is the "no score yet" -1.
\* hasName and hasScore say whether the record carries the field at all.
Details(id, hasName, hasScore, score, tier) ==
    [t |-> "details", id |-> id, hasName |-> hasName, name |-> <<"a", "b">>,
     hasScore |-> hasScore, topCriticScore |-> score, tier |-> tier,
     numTopCriticReviews |-> 0, numReviews |-> 150]
DetailBodies(id) == {Null,
                     Details(id, TRUE, TRUE, 905, "Mighty"),
                     Details(id, TRUE, TRUE, -10, "undefined"),
                     Details(id, TRUE, FALSE, 0, "undefined"),
                     Details(id, FALSE, TRUE, 905, "Mighty")}

\* A response: fetch rejects, or resolves with a status and a body; the body
\* of an OK response may fail to parse as JSON
Threw == [kind |-> "throw"]
Http(status) == [kind |-> "http", status |-> status, ok |-> FALSE]
Ok(body) == [kind |-> "http", status |-> 200, ok |-> TRUE, parses |-> TRUE, body |-> body]
BadJson == [kind |-> "http", status |-> 200, ok |-> TRUE, parses |-> FALSE]
NoResponse == [kind |-> "none"]
Responses(phase, id) ==
    {Threw, Http(429), Http(500), BadJson}
    \cup {Ok(b) : b \in IF phase = "search" THEN SearchBodies ELSE DetailBodies(id)}

\* Date.now() may move by these amounts between two turns of the event loop:
\* far enough for every timer of the client to be due, or by a whole
\* time-to-live
TTL_MS == DEFAULT_TTL_DAYS * MS_PER_DAY
TimeSteps == {4000, TTL_MS}

VARIABLES
    now,            \* Date.now()
    storage,        \* chrome.storage.local: key -> row or NoRow
    \* reviewScoresClient.ts
    requestQueue,   \* the chain of pending myTurn promises, oldest first
    turnDeadline,   \* when the timer of the oldest pending myTurn fires
    caller,         \* each caller's position in resolveReviewScore
    ret,            \* what each caller's last resolveReviewScore returned
    tickets,        \* number of rateLimit() invocations so far
    fetchCount,     \* number of fetch() calls so far
    lastFetchAt,    \* Date.now() at the latest fetch() call
    lastTicket,     \* which rateLimit() invocation the latest fetch() followed
    batch,          \* each caller's position in batchResolveReviewScores
    probe,          \* a direct call of a function of the name matcher, and its result
    calls,          \* number of resolveReviewScore calls so far
    \* igdbClient.js and resolver.js
    lastRequestTime,  \* igdbClient.js: lastRequestTime
    igdb,             \* each caller's position in the IGDB resolver
    igdbRet,          \* what each caller's last IGDB resolve returned
    igdbFetches,      \* number of fetch() calls to api.igdb.com so far
    igdbLastFetchAt,  \* Date.now() at the latest of them
    igdbCalls,        \* number of resolver calls so far
    tm,               \* tokenManager.js: its two stored rows and its callers
    \* resolver.ts (Wikidata)
    wd,             \* each caller's position in the Wikidata resolver
    wdRet,          \* what each caller's last resolve returned
    wdQueries,      \* number of WikidataClient queries so far
    wdCalls         \* number of resolver calls so far

reviewVars == <<requestQueue, turnDeadline, caller, ret,
                tickets, fetchCount, lastFetchAt, lastTicket, calls, batch, probe>>
igdbVars == <<lastRequestTime, igdb, igdbRet, igdbFetches, igdbLastFetchAt, igdbCalls,
             tm>>
wdVars == <<wd, wdRet, wdQueries, wdCalls>>
vars == <<now, storage, reviewVars, igdbVars, wdVars>>

\* ------------------------------------------------------------------------
\* Review-score cache (reviewScoresClient.ts)
\* ------------------------------------------------------------------------
\* Mutant: an entry counts as valid at the very millisecond it expires
isReviewCacheValid_inclusive(entry) ==
    IF entry = NoRow \/ entry.resolvedAt = 0 \/ entry.ttlDays = 0
    THEN FALSE
    ELSE now <= entry.resolvedAt + entry.ttlDays * MS_PER_DAY

isReviewCacheValid(entry) ==
    IF entry = NoRow \/ entry.resolvedAt = 0 \/ entry.ttlDays = 0
    THEN FALSE
    ELSE LET expiresAt == entry.resolvedAt + entry.ttlDays * MS_PER_DAY
         IN  now < expiresAt

\* Mutant: a row with a null score is treated as a miss
getFromReviewCache_skipsNullScore(appid) ==
    LET entry == storage[getReviewCacheKey(appid)]
    IN  IF entry # NoRow /\ isReviewCacheValid(entry) /\ entry.score # Null
        THEN entry ELSE Null

\* Mutant: a hit is handed out with a fresh time stamp
getFromReviewCache_restamps(appid) ==
    LET entry == storage[getReviewCacheKey(appid)]
    IN  IF entry # NoRow /\ isReviewCacheValid(entry)
        THEN [entry EXCEPT !.resolvedAt = now + 1] ELSE Null

getFromReviewCache(appid) ==
    LET entry == storage[getReviewCacheKey(appid)]
    IN  IF entry # NoRow /\ isReviewCacheValid(entry) THEN entry ELSE Null

saveToReviewCache(entry) ==
    [storage EXCEPT ![getReviewCacheKey(entry.appid)] = entry]

createReviewCacheEntry(appid, gameName, score) ==
    [appid |-> appid, gameName |-> gameName, score |-> score,
     resolvedAt |-> now, ttlDays |-> DEFAULT_TTL_DAYS]

\* ------------------------------------------------------------------------
\* OpenCritic queries (reviewScoresClient.ts)
\* ------------------------------------------------------------------------
Returned(v) == [threw |-> FALSE, value |-> v]
Thrown == [threw |-> TRUE]

\* Mutant: a later candidate of equal similarity replaces the best match
RECURSIVE bestMatchFrom_lastWins(_, _, _, _, _)
bestMatchFrom_lastWins(gameName, results, i, bestMatch, bestScore) ==
    IF i > Len(results) THEN bestMatch
    ELSE LET similarity == calculateSimilarity(gameName, results[i].name)
         IN  IF ~FracLess(similarity, bestScore) /\ FracGeq(similarity, Frac(1, 2))
             THEN bestMatchFrom_lastWins(gameName, results, i + 1, results[i], similarity)
             ELSE bestMatchFrom_lastWins(gameName, results, i + 1, bestMatch, bestScore)

\* The loop of searchGame over results[i..], with the best match so far
RECURSIVE bestMatchFrom(_, _, _, _, _)
bestMatchFrom(gameName, results, i, bestMatch, bestScore) ==
    IF i > Len(results) THEN bestMatch
    ELSE LET similarity == calculateSimilarity(gameName, results[i].name)
         IN  IF FracLess(bestScore, similarity) /\ FracGeq(similarity, Frac(1, 2))
             THEN bestMatchFrom(gameName, results, i + 1, results[i], similarity)
             ELSE bestMatchFrom(gameName, results, i + 1, bestMatch, bestScore)

\* searchGame from the value fetchOpenCritic returned; iterating an object
\* that is no array throws a TypeError
searchGame(gameName, results) ==
    IF results = Null THEN Returned(Null)
    ELSE IF results.t # "array" THEN Thrown
    ELSE IF Len(results.v) = 0 THEN Returned(Null)
    ELSE Returned(bestMatchFrom(gameName, results.v, 1, Null, Frac(0, 1)))

\* Math.round of a number kept in tenths
MathRound(tenths) == (tenths + 5) \div 10

\* Mutant: a score of zero counts as no score
reviewScoreFromDetails_zeroIsNone(details) ==
    IF details = Null THEN Returned(Null)
    ELSE IF details.hasScore /\ details.topCriticScore <= 0 THEN Returned(Null)
    ELSE IF ~details.hasName THEN Thrown
    ELSE Returned([t |-> "score", source |-> "opencritic",
                   isNaN |-> ~details.hasScore,
                   score |-> IF details.hasScore THEN MathRound(details.topCriticScore) ELSE 0,
                   tier |-> details.tier,
                   url |-> <<details.id, createSlug(details.name)>>,
                   criticCount |-> IF details.numTopCriticReviews # 0
                                   THEN details.numTopCriticReviews
                                   ELSE details.numReviews])

\* queryReviewScore from the value getGameDetails returned; createSlug of a
\* missing name throws a TypeError, Math.round of a missing score is NaN
reviewScoreFromDetails(details) ==
    IF details = Null THEN Returned(Null)
    ELSE IF details.hasScore /\ details.topCriticScore < 0 THEN Returned(Null)
    ELSE IF ~details.hasName THEN Thrown
    ELSE Returned([t |-> "score", source |-> "opencritic",
                   isNaN |-> ~details.hasScore,
                   score |-> IF details.hasScore THEN MathRound(details.topCriticScore) ELSE 0,
                   tier |-> details.tier,
                   url |-> <<details.id, createSlug(details.name)>>,
                   criticCount |-> IF details.numTopCriticReviews # 0
                                   THEN details.numTopCriticReviews
                                   ELSE details.numReviews])

\* Mutant: every retry waits for the initial backoff
fetchOpenCritic_flatBackoff(response, retryCount) ==
    IF response.kind = "throw" THEN [k |-> "return", value |-> Null]
    ELSE IF response.status = 429
         THEN IF retryCount < MAX_RETRIES
              THEN [k |-> "retry", backoffMs |-> INITIAL_BACKOFF_MS]
              ELSE [k |-> "return", value |-> Null]
    ELSE IF ~response.ok THEN [k |-> "return", value |-> Null]
    ELSE IF ~response.parses THEN [k |-> "return", value |-> Null]
    ELSE [k |-> "return", value |-> response.body]

\* Mutant: a 429 is retried however many attempts were made
fetchOpenCritic_uncapped(response, retryCount) ==
    IF response.kind = "throw" THEN [k |-> "return", value |-> Null]
    ELSE IF response.status = 429
         THEN [k |-> "retry", backoffMs |-> INITIAL_BACKOFF_MS * 2 ^ retryCount]
    ELSE IF ~response.ok \/ ~response.parses THEN [k |-> "return", value |-> Null]
    ELSE [k |-> "return", value |-> response.body]

\* Mutant: a failure that is no 429 is retried like a 429
fetchOpenCritic_retriesFailures(response, retryCount) ==
    IF response.kind = "throw" \/ ~response.ok
    THEN IF retryCount < MAX_RETRIES
         THEN [k |-> "retry", backoffMs |-> INITIAL_BACKOFF_MS * 2 ^ retryCount]
         ELSE [k |-> "return", value |-> Null]
    ELSE IF ~response.parses THEN [k |-> "return", value |-> Null]
    ELSE [k |-> "return", value |-> response.body]

\* Mutant: the value of the recursive call is dropped
fetchOpenCritic_dropsRetryValue(response, retryCount) ==
    IF response.kind = "throw" THEN [k |-> "return", value |-> Null]
    ELSE IF response.status = 429
         THEN IF retryCount < MAX_RETRIES
              THEN [k |-> "retry", backoffMs |-> INITIAL_BACKOFF_MS * 2 ^ retryCount]
              ELSE [k |-> "return", value |-> Null]
    ELSE IF ~response.ok \/ ~response.parses \/ retryCount > 0
         THEN [k |-> "return", value |-> Null]
    ELSE [k |-> "return", value |-> response.body]

\* What fetchOpenCritic does with a response at a given retryCount: wait and
\* call itself again, or return a value to its caller
fetchOpenCritic(response, retryCount) ==
    IF response.kind = "throw" THEN [k |-> "return", value |-> Null]
    ELSE IF response.status = 429
         THEN IF retryCount < MAX_RETRIES
              THEN [k |-> "retry", backoffMs |-> INITIAL_BACKOFF_MS * 2 ^ retryCount]
              ELSE [k |-> "return", value |-> Null]
    ELSE IF ~response.ok THEN [k |-> "return", value |-> Null]
    ELSE IF ~response.parses THEN [k |-> "return", value |-> Null]
    ELSE [k |-> "return", value |-> response.body]

\* ------------------------------------------------------------------------
\* Request serializer (reviewScoresClient.ts)
\* ------------------------------------------------------------------------
\* Mutant: a turn is chained on the queue without a timer of its own
nextTurnAt_noDelay(t) == t

\* The timer a myTurn promise starts once the promise before it has settled
nextTurnAt(t) == t + REQUEST_DELAY_MS

\* Mutant: the newest pending turn settles first
nextInLine_newest(queue) == Len(queue)

\* Which pending myTurn settles next: each one is chained on the one before
nextInLine(queue) == 1

\* rateLimit() called by p: myTurn is chained on requestQueue and becomes the
\* new requestQueue; its timer starts at once when nothing is pending
rateLimit(p) ==
    /\ requestQueue' = Append(requestQueue, [caller |-> p, ticket |-> tickets + 1])
    /\ turnDeadline' = IF requestQueue = <<>> THEN nextTurnAt(now) ELSE turnDeadline
    /\ tickets' = tickets + 1

noRateLimit == UNCHANGED <<requestQueue, turnDeadline, tickets>>

\* ------------------------------------------------------------------------
\* resolveReviewScore, one action per turn of the event loop
\* ------------------------------------------------------------------------
NoRet == [none |-> TRUE]
NoCall == [retries |-> 0, response |-> NoResponse, value |-> Null]
IdleCaller == [pc |-> "idle", callNo |-> 0, appid |-> "", gameName |-> <<>>,
               phase |-> "-", gameId |-> 0, retryCount |-> 0, wakeAt |-> NoTime,
               fetches |-> 0, lastCall |-> NoCall]

\* Mutant: each caller answers from a memory of its own last result and
\* never reads the storage
resolveReviewScore_ownMemory(p, appid, gameName) ==
    /\ caller[p].pc = "idle"
    /\ calls' = calls + 1
    /\ LET cached == IF ret[p] # NoRet /\ ret[p].entry.appid = appid
                        /\ isReviewCacheValid(ret[p].entry)
                     THEN ret[p].entry ELSE Null
           c == [IdleCaller EXCEPT !.callNo = calls + 1, !.appid = appid,
                                   !.gameName = gameName]
       IN  IF cached # Null
           THEN /\ caller' = [caller EXCEPT ![p] = c]
                /\ ret' = [ret EXCEPT ![p] = [entry |-> cached, fromCache |-> TRUE,
                                              saved |-> FALSE, fetches |-> 0]]
                /\ noRateLimit
           ELSE /\ caller' = [caller EXCEPT ![p] = [c EXCEPT !.pc = "queued",
                                                             !.phase = "search"]]
                /\ ret' = [ret EXCEPT ![p] = NoRet]
                /\ rateLimit(p)
    /\ UNCHANGED <<now, storage, fetchCount, lastFetchAt, lastTicket, igdbVars, wdVars, probe>>

\* resolveReviewScore(appid, gameName) is called: a valid row is returned, or
\* queryReviewScore starts: searchGame calls fetchOpenCritic, which awaits
\* rateLimit()
resolveReviewScore(p, appid, gameName) ==
    /\ caller[p].pc = "idle"
    /\ calls' = calls + 1
    /\ LET cached == getFromReviewCache(appid)
           c == [IdleCaller EXCEPT !.callNo = calls + 1, !.appid = appid,
                                   !.gameName = gameName]
       IN  IF cached # Null
           THEN /\ caller' = [caller EXCEPT ![p] = c]
                /\ ret' = [ret EXCEPT ![p] = [entry |-> cached, fromCache |-> TRUE,
                                              saved |-> FALSE, fetches |-> 0]]
                /\ noRateLimit
           ELSE /\ caller' = [caller EXCEPT ![p] = [c EXCEPT !.pc = "queued",
                                                             !.phase = "search"]]
                /\ ret' = [ret EXCEPT ![p] = NoRet]
                /\ rateLimit(p)
    /\ UNCHANGED <<now, storage, fetchCount, lastFetchAt, lastTicket, igdbVars, wdVars, probe>>

\* Mutant: a turn is released only after the request before it has settled
TurnReleased_afterRequest ==
    /\ requestQueue # <<>>
    /\ now >= turnDeadline
    /\ \A p \in Callers : caller[p].pc # "fetching"
    /\ LET i == nextInLine(requestQueue)
           turn == requestQueue[i]
           rest == SubSeq(requestQueue, 1, i - 1)
                   \o SubSeq(requestQueue, i + 1, Len(requestQueue))
       IN  /\ requestQueue' = rest
           /\ turnDeadline' = IF rest = <<>> THEN NoTime ELSE nextTurnAt(now)
           /\ caller' = [caller EXCEPT ![turn.caller].pc = "fetching",
                                       ![turn.caller].fetches = @ + 1]
           /\ lastTicket' = turn.ticket
    /\ fetchCount' = fetchCount + 1
    /\ lastFetchAt' = now
    /\ UNCHANGED <<now, storage, ret, tickets, calls, batch, igdbVars, wdVars, probe>>

\* The timer of the oldest pending myTurn fires: its caller leaves rateLimit()
\* and calls fetch(); the next myTurn starts its own timer
TurnReleased ==
    /\ requestQueue # <<>>
    /\ now >= turnDeadline
    /\ LET i == nextInLine(requestQueue)
           turn == requestQueue[i]
           rest == SubSeq(requestQueue, 1, i - 1)
                   \o SubSeq(requestQueue, i + 1, Len(requestQueue))
       IN  /\ requestQueue' = rest
           /\ turnDeadline' = IF rest = <<>> THEN NoTime ELSE nextTurnAt(now)
           /\ caller' = [caller EXCEPT ![turn.caller].pc = "fetching",
                                       ![turn.caller].fetches = @ + 1]
           /\ lastTicket' = turn.ticket
    /\ fetchCount' = fetchCount + 1
    /\ lastFetchAt' = now
    /\ UNCHANGED <<now, storage, ret, tickets, calls, batch, igdbVars, wdVars, probe>>

\* resolveReviewScore returns in caller state c: the entry is built and,
\* unless the query threw, saved first
Finish(p, c, outcome) ==
    LET entry == createReviewCacheEntry(c.appid, c.gameName,
                     IF outcome.threw THEN Null ELSE outcome.value)
    IN  /\ storage' = IF outcome.threw THEN storage ELSE saveToReviewCache(entry)
        /\ ret' = [ret EXCEPT ![p] = [entry |-> entry, fromCache |-> FALSE,
                                      saved |-> ~outcome.threw, fetches |-> c.fetches]]
        /\ caller' = [caller EXCEPT ![p] = [c EXCEPT !.pc = "idle"]]
        /\ noRateLimit

\* fetchOpenCritic returned c.lastCall.value to searchGame or to
\* getGameDetails, and queryReviewScore runs on to its next await or to its end
Resume(p, c) ==
    IF c.phase = "search"
    THEN LET searchResult == searchGame(c.gameName, c.lastCall.value)
         IN  IF searchResult.threw \/ searchResult.value = Null
             THEN Finish(p, c, searchResult)
             ELSE /\ caller' = [caller EXCEPT ![p] = [c EXCEPT !.pc = "queued",
                                              !.phase = "detail",
                                              !.gameId = searchResult.value.id,
                                              !.retryCount = 0]]
                  /\ rateLimit(p)
                  /\ UNCHANGED <<storage, ret>>
    ELSE Finish(p, c, reviewScoreFromDetails(c.lastCall.value))

\* The response to p's fetch() arrives
Respond(p, response) ==
    /\ caller[p].pc = "fetching"
    /\ LET step == fetchOpenCritic(response, caller[p].retryCount)
       IN  IF step.k = "retry"
           THEN /\ caller' = [caller EXCEPT ![p].pc = "backoff",
                                            ![p].wakeAt = now + step.backoffMs]
                /\ noRateLimit
                /\ UNCHANGED <<storage, ret>>
           ELSE Resume(p, [caller[p] EXCEPT !.lastCall =
                              [retries |-> caller[p].retryCount,
                               response |-> response, value |-> step.value]])
    /\ UNCHANGED <<now, fetchCount, lastFetchAt, lastTicket, calls, batch,
                   igdbVars, wdVars, probe>>

\* The backoff timer fires: fetchOpenCritic(url, retryCount + 1) awaits
\* rateLimit() again
BackoffOver(p) ==
    /\ caller[p].pc = "backoff"
    /\ now >= caller[p].wakeAt
    /\ caller' = [caller EXCEPT ![p].pc = "queued", ![p].retryCount = @ + 1,
                                ![p].wakeAt = NoTime]
    /\ rateLimit(p)
    /\ UNCHANGED <<now, storage, ret, fetchCount, lastFetchAt, lastTicket, calls,
                   batch, igdbVars, wdVars, probe>>

\* ------------------------------------------------------------------------
\* Failures of chrome.storage.local under resolveReviewScore
\* ------------------------------------------------------------------------
\* The promise of resolveReviewScore rejects
Rejected == [rejected |-> TRUE]

\* resolveReviewScore(appid, gameName) is called and chrome.storage.local.get
\* rejects: getFromReviewCache awaits it outside any try block, so the
\* rejection passes through getFromReviewCache and resolveReviewScore
resolveReviewScoreReadFails(p, appid, gameName) ==
    /\ caller[p].pc = "idle"
    /\ calls' = calls + 1
    /\ caller' = [caller EXCEPT ![p] = [IdleCaller EXCEPT !.callNo = calls + 1,
                                                         !.appid = appid,
                                                         !.gameName = gameName]]
    /\ ret' = [ret EXCEPT ![p] = Rejected]
    /\ noRateLimit
    /\ UNCHANGED <<now, storage, fetchCount, lastFetchAt, lastTicket, batch,
                   igdbVars, wdVars, probe>>

\* The response to p's detail request arrives and holds a score, and
\* chrome.storage.local.set rejects: saveToReviewCache is awaited inside the
\* try block, so the catch branch returns an entry without a score
RespondSaveFails(p, response) ==
    /\ caller[p].pc = "fetching"
    /\ caller[p].phase = "detail"
    /\ LET step == fetchOpenCritic(response, caller[p].retryCount)
           c == [caller[p] EXCEPT !.lastCall =
                    [retries |-> caller[p].retryCount,
                     response |-> response, value |-> step.value]]
       IN  /\ step.k # "retry"
           /\ ~reviewScoreFromDetails(step.value).threw
           /\ Finish(p, c, Thrown)
    /\ UNCHANGED <<now, fetchCount, lastFetchAt, lastTicket, calls, batch,
                   igdbVars, wdVars, probe>>

\* ------------------------------------------------------------------------
\* batchResolveReviewScores (reviewScoresClient.ts)
\* ------------------------------------------------------------------------
\* results.set(appid, result) on the Map the batch returns
MapSet(results, r) ==
    IF \E i \in 1..Len(results) : results[i].appid = r.appid
    THEN [i \in 1..Len(results) |->
             IF results[i].appid = r.appid THEN r ELSE results[i]]
    ELSE Append(results, r)

\* A caller outside batchResolveReviewScores. rows and fetchesBefore record
\* the storage and the number of fetch() calls at the time of the call.
IdleBatch == [pc |-> "idle", games |-> <<>>, todo |-> <<>>, uncached |-> <<>>,
              results |-> <<>>, fetchesBefore |-> 0,
              rows |-> [k \in StorageKeys |-> NoRow]]

\* batchResolveReviewScores(games) is called; with nothing to look at it
\* returns the empty map
batchResolveReviewScores(p, games) ==
    /\ caller[p].pc = "idle"
    /\ batch[p].pc \in {"idle", "done"}
    /\ batch' = [batch EXCEPT ![p] =
                    [IdleBatch EXCEPT !.pc = IF games = <<>> THEN "done" ELSE "check",
                                      !.games = games, !.todo = games,
                                      !.fetchesBefore = fetchCount,
                                      !.rows = storage]]
    /\ noRateLimit
    /\ UNCHANGED <<now, storage, caller, ret, fetchCount, lastFetchAt, lastTicket,
                   calls, igdbVars, wdVars, probe>>

\* Mutant: a row found in the cache is reported as freshly resolved
BatchCheck_hitNotFromCache(p) ==
    /\ batch[p].pc = "check"
    /\ LET g == Head(batch[p].todo)
           cached == getFromReviewCache(g.appid)
           b == [batch[p] EXCEPT
                    !.todo = Tail(@),
                    !.results = IF cached # Null
                                THEN MapSet(@, [appid |-> g.appid, entry |-> cached,
                                                fromCache |-> FALSE])
                                ELSE @,
                    !.uncached = IF cached # Null THEN @ ELSE Append(@, g)]
       IN  batch' = [batch EXCEPT ![p] =
                        [b EXCEPT !.pc = IF b.todo # <<>> THEN "check"
                                         ELSE IF b.uncached = <<>> THEN "done"
                                         ELSE "resolve"]]
    /\ noRateLimit
    /\ UNCHANGED <<now, storage, caller, ret, fetchCount, lastFetchAt, lastTicket,
                   calls, igdbVars, wdVars, probe>>

\* The first loop looks at its next item: await getFromReviewCache(appid);
\* after the last item the batch returns if nothing is uncached
BatchCheck(p) ==
    /\ batch[p].pc = "check"
    /\ LET g == Head(batch[p].todo)
           cached == getFromReviewCache(g.appid)
           b == [batch[p] EXCEPT
                    !.todo = Tail(@),
                    !.results = IF cached # Null
                                THEN MapSet(@, [appid |-> g.appid, entry |-> cached,
                                                fromCache |-> TRUE])
                                ELSE @,
                    !.uncached = IF cached # Null THEN @ ELSE Append(@, g)]
       IN  batch' = [batch EXCEPT ![p] =
                        [b EXCEPT !.pc = IF b.todo # <<>> THEN "check"
                                         ELSE IF b.uncached = <<>> THEN "done"
                                         ELSE "resolve"]]
    /\ noRateLimit
    /\ UNCHANGED <<now, storage, caller, ret, fetchCount, lastFetchAt, lastTicket,
                   calls, igdbVars, wdVars, probe>>

\* The second loop reaches its next item: await resolveReviewScore(appid, gameName)
BatchResolveNext(p) ==
    /\ batch[p].pc = "resolve"
    /\ resolveReviewScore(p, Head(batch[p].uncached).appid,
                          Head(batch[p].uncached).gameName)
    /\ batch' = [batch EXCEPT ![p].pc = "await"]

\* resolveReviewScore has returned: results.set(appid, { entry, fromCache });
\* after the last uncached item the batch returns
BatchCollect(p) ==
    /\ batch[p].pc = "await"
    /\ caller[p].pc = "idle" /\ ret[p] # NoRet
    /\ batch' = [batch EXCEPT ![p] =
                    [@ EXCEPT !.uncached = Tail(@),
                              !.results = MapSet(@, [appid |-> ret[p].entry.appid,
                                                     entry |-> ret[p].entry,
                                                     fromCache |-> ret[p].fromCache]),
                              !.pc = IF Tail(batch[p].uncached) = <<>> THEN "done"
                                     ELSE "resolve"]]
    /\ noRateLimit
    /\ UNCHANGED <<now, storage, caller, ret, fetchCount, lastFetchAt, lastTicket,
                   calls, igdbVars, wdVars, probe>>

\* Time passes: by d, by at most maxMs in small steps and at most maxJumps
\* times by a whole time-to-live
Tick(d, maxMs, maxJumps) ==
    /\ IF d < TTL_MS
       THEN ((now - StartTime) % TTL_MS) + d <= maxMs
       ELSE (now - StartTime) \div TTL_MS < maxJumps
    /\ now' = now + d
    /\ UNCHANGED <<storage, reviewVars, igdbVars, wdVars>>

\* ------------------------------------------------------------------------
\* Platform availability: cache, store URLs and manual overrides
\* ------------------------------------------------------------------------
PLATFORMS == {"nintendo", "playstation", "xbox"}

\* A store URL: the search URL StoreUrls builds from a name, or the URL of
\* an official store page
SearchUrl(platform, gameName) ==
    [t |-> "url", kind |-> "search", platform |-> platform, q |-> gameName,
     hasHttp |-> TRUE]
OfficialUrl(platform, hasHttp) ==
    [t |-> "url", kind |-> "official", platform |-> platform, q |-> <<>>,
     hasHttp |-> hasHttp]
EmptyUrl ==
    [t |-> "url", kind |-> "empty", platform |-> "any", q |-> <<>>, hasHttp |-> FALSE]
StoreUrls(platform, gameName) == SearchUrl(platform, gameName)

MANUAL_OVERRIDES ==
    [a \in AvailAppIds |->
        IF a = "30"
        THEN [nintendo |-> "available", playstation |-> "", xbox |-> "unavailable"]
        ELSE Null]

\* Mutant: the override's value is stored as it is
overrideStatus_raw(override, platform) == override[platform]

\* override[platform] || 'unknown'
overrideStatus(override, platform) ==
    IF override[platform] = "" THEN "unknown" ELSE override[platform]

\* The availability cache: a row counts while resolvedAt + ttlDays days lies
\* in the future; a save overwrites the row of the entry's item
isCacheValid(entry) == now < entry.resolvedAt + entry.ttlDays * MS_PER_DAY
getFromCache(appid) ==
    LET entry == storage[getCacheKey(appid)]
    IN  IF entry # NoRow /\ isCacheValid(entry) THEN entry ELSE Null
saveToCache(store, entry) == [store EXCEPT ![getCacheKey(entry.appid)] = entry]

RECURSIVE saveAllToCache(_, _)
saveAllToCache(store, entries) ==
    IF entries = <<>> THEN store
    ELSE saveAllToCache(saveToCache(store, Head(entries)), Tail(entries))

\* One item of a resolver's answer, and whether the resolver queried its
\* source for it and saved its entry
Result(entry, fromCache, queried, saved) ==
    [appid |-> entry.appid, entry |-> entry, fromCache |-> fromCache,
     queried |-> queried, saved |-> saved]
MapSeq(s, F(_)) == [i \in 1..Len(s) |-> F(s[i])]
Game(appid, gameName) == [appid |-> appid, gameName |-> gameName]

\* ------------------------------------------------------------------------
\* IGDB client (igdbClient.js)
\* ------------------------------------------------------------------------
\* Date.now() at the start of the run: lastRequestTime starts at 0 on a clock
\* that has long passed REQUEST_DELAY_MS
EpochOffset == 1000000

IgdbId(n) == [t |-> "id", v |-> n]
IgdbGame(appid, platforms, websites) ==
    [id |-> 7, name |-> <<"Z">>, platforms |-> platforms, websites |-> websites,
     external_games |-> <<[uid |-> appid, category |-> EXTERNAL_GAME_CATEGORY_STEAM]>>]
IgdbGames(appid) ==
    {IgdbGame(appid, {PLATFORM_SWITCH, PLATFORM_PS4},
              <<[category |-> WEBSITE_OFFICIAL, url |-> OfficialUrl("any", TRUE)],
                [category |-> WEBSITE_ESHOP, url |-> OfficialUrl("nintendo", TRUE)],
                [category |-> WEBSITE_PLAYSTATION, url |-> EmptyUrl],
                [category |-> WEBSITE_XBOX, url |-> OfficialUrl("xbox", FALSE)]>>)}

hasPlatform(game, platformIds) == game.platforms \cap platformIds # {}

findStoreUrl(game, websiteCategory) ==
    LET found == {i \in 1..Len(game.websites) : game.websites[i].category = websiteCategory}
        url == game.websites[CHOOSE i \in found : \A j \in found : i <= j].url
    IN  IF found = {} \/ url = EmptyUrl THEN Null ELSE url

\* What makeRequest does with a response: wait and call itself again, or
\* return the parsed body or null
makeRequest(response) ==
    IF response.kind = "throw" THEN [k |-> "return", value |-> Null]
    ELSE IF ~response.ok
         THEN IF response.status = 429
              THEN [k |-> "retry", waitMs |-> IGDB_RETRY_WAIT_MS]
              ELSE [k |-> "return", value |-> Null]
    ELSE IF ~response.parses THEN [k |-> "return", value |-> Null]
    ELSE [k |-> "return", value |-> response.body]

\* lookupBySteamId from the value makeRequest returned; the first element of
\* an object that is no array is undefined
lookupBySteamId(results) ==
    IF results = Null THEN Null
    ELSE IF results.t # "array" THEN Null
    ELSE IF Len(results.v) = 0 THEN Null
    ELSE results.v[1]

\* batchLookupBySteamIds from the value makeRequest returned for the one
\* batch: the game stored last under a Steam appid, or null; iterating an
\* object that is no array throws a TypeError
batchLookupThrows(batchResults) ==
    batchResults # Null /\ batchResults.t # "array"
batchLookupBySteamIds(batchResults, appid) ==
    IF batchResults = Null THEN Null
    ELSE LET games == batchResults.v
             hits == {i \in 1..Len(games) :
                         \E j \in 1..Len(games[i].external_games) :
                             /\ games[i].external_games[j].category = EXTERNAL_GAME_CATEGORY_STEAM
                             /\ \A k \in 1..(j - 1) :
                                   games[i].external_games[k].category # EXTERNAL_GAME_CATEGORY_STEAM
                             /\ games[i].external_games[j].uid = appid}
         IN  IF hits = {} THEN Null
             ELSE games[CHOOSE i \in hits : \A j \in hits : j <= i]

resolvePlatformAvailability(game, gameName) ==
    IF game = Null
    THEN [igdbId |-> Null, gameName |-> gameName,
          nintendo |-> [available |-> FALSE, storeUrl |-> Null],
          playstation |-> [available |-> FALSE, storeUrl |-> Null],
          xbox |-> [available |-> FALSE, storeUrl |-> Null],
          found |-> FALSE]
    ELSE [igdbId |-> IgdbId(game.id),
          gameName |-> IF game.name # <<>> THEN game.name ELSE gameName,
          nintendo |-> [available |-> hasPlatform(game, {PLATFORM_SWITCH}),
                        storeUrl |-> findStoreUrl(game, WEBSITE_ESHOP)],
          playstation |-> [available |-> hasPlatform(game, {PLATFORM_PS4, PLATFORM_PS5}),
                           storeUrl |-> findStoreUrl(game, WEBSITE_PLAYSTATION)],
          xbox |-> [available |-> hasPlatform(game, {PLATFORM_XBOX_ONE, PLATFORM_XBOX_SERIES}),
                    storeUrl |-> findStoreUrl(game, WEBSITE_XBOX)],
          found |-> TRUE]

\* ------------------------------------------------------------------------
\* IGDB resolver (resolver.js)
\* ------------------------------------------------------------------------
igdbResultToCacheEntry(appid, gameName, igdbResult) ==
    LET displayName == IF igdbResult.gameName # <<>> THEN igdbResult.gameName ELSE gameName
        getStatus(platformResult) ==
            IF ~igdbResult.found THEN "unknown"
            ELSE IF platformResult.available THEN "available" ELSE "unavailable"
        getUrl(platformResult, platform) ==
            IF platformResult.storeUrl # Null /\ platformResult.storeUrl # EmptyUrl
            THEN platformResult.storeUrl
            ELSE StoreUrls(platform, displayName)
    IN  [appid |-> appid, gameName |-> displayName,
         platforms |-> [pl \in PLATFORMS |->
                           [status |-> getStatus(igdbResult[pl]),
                            storeUrl |-> getUrl(igdbResult[pl], pl)]],
         source |-> IF igdbResult.found THEN "igdb" ELSE "fallback",
         igdbId |-> igdbResult.igdbId, resolvedAt |-> now, ttlDays |-> 7]

igdbCreateFallbackEntry(appid, gameName) ==
    [appid |-> appid, gameName |-> gameName,
     platforms |-> [pl \in PLATFORMS |->
                       [status |-> "unknown", storeUrl |-> StoreUrls(pl, gameName)]],
     source |-> "none", igdbId |-> Null, resolvedAt |-> now, ttlDays |-> 7]

igdbManualEntry(appid, gameName, override) ==
    [appid |-> appid, gameName |-> gameName,
     platforms |-> [pl \in PLATFORMS |->
                       [status |-> overrideStatus(override, pl),
                        storeUrl |-> StoreUrls(pl, gameName)]],
     source |-> "manual", igdbId |-> Null, resolvedAt |-> now, ttlDays |-> 7]

\* The cached entry under a new game name: search URLs follow the name where
\* the status is unknown or the stored URL holds no 'http'
igdbRenamed(cached, gameName) ==
    [cached EXCEPT !.gameName = gameName,
                   !.platforms = [pl \in PLATFORMS |->
                       IF @[pl].status = "unknown" \/ ~@[pl].storeUrl.hasHttp
                       THEN [@[pl] EXCEPT !.storeUrl = StoreUrls(pl, gameName)]
                       ELSE @[pl]]]

IdleIgdb == [pc |-> "idle", callNo |-> 0, batch |-> FALSE, test |-> FALSE,
             games |-> <<>>, results |-> <<>>, wakeAt |-> NoTime, fetches |-> 0]
Tokens == {Null, [accessToken |-> "token", clientId |-> "client"]}

\* rateLimit() has set lastRequestTime and makeRequest calls fetch()
igdbFetch(p, c) ==
    /\ lastRequestTime' = now
    /\ igdb' = [igdb EXCEPT ![p] = [c EXCEPT !.pc = "fetching", !.wakeAt = NoTime,
                                             !.fetches = @ + 1]]
    /\ igdbFetches' = igdbFetches + 1
    /\ igdbLastFetchAt' = now

\* makeRequest awaits rateLimit(): a caller that finds the last request less
\* than REQUEST_DELAY_MS old sleeps for the remainder
igdbRateLimit(p, c) ==
    LET timeSinceLastRequest == now - lastRequestTime
    IN  IF timeSinceLastRequest < IGDB_REQUEST_DELAY_MS
        THEN /\ igdb' = [igdb EXCEPT ![p] =
                            [c EXCEPT !.pc = "limited",
                                      !.wakeAt = now + (IGDB_REQUEST_DELAY_MS
                                                        - timeSinceLastRequest)]]
             /\ UNCHANGED <<lastRequestTime, igdbFetches, igdbLastFetchAt>>
        ELSE igdbFetch(p, c)

\* The resolver returns results to p, having left newStorage behind
igdbReturn(p, c, results, response, newStorage) ==
    /\ storage' = newStorage
    /\ igdbRet' = [igdbRet EXCEPT ![p] = [batch |-> c.batch, results |-> results,
                                          fetches |-> c.fetches, response |-> response,
                                          test |-> FALSE, success |-> FALSE]]
    /\ igdb' = [igdb EXCEPT ![p] = [c EXCEPT !.pc = "idle"]]
    /\ UNCHANGED <<lastRequestTime, igdbFetches, igdbLastFetchAt>>

\* testConnection returns to p: success when makeRequest returned an array
testConnectionReturn(p, c, result, response) ==
    /\ igdbRet' = [igdbRet EXCEPT ![p] = [batch |-> FALSE, results |-> <<>>,
                                          fetches |-> c.fetches, response |-> response,
                                          test |-> TRUE,
                                          success |-> result # Null /\ result.t = "array"]]
    /\ igdb' = [igdb EXCEPT ![p] = [c EXCEPT !.pc = "idle"]]
    /\ UNCHANGED <<storage, lastRequestTime, igdbFetches, igdbLastFetchAt>>

\* testConnection(accessToken, clientId) is called: makeRequest awaits
\* rateLimit()
testConnection(p) ==
    /\ igdb[p].pc = "idle"
    /\ igdbCalls' = igdbCalls + 1
    /\ igdbRateLimit(p, [IdleIgdb EXCEPT !.callNo = igdbCalls + 1, !.test = TRUE])
    /\ igdbRet' = [igdbRet EXCEPT ![p] = NoRet]
    /\ UNCHANGED <<now, storage, tm, reviewVars, wdVars>>

\* resolvePlatformData(appid, gameName) of resolver.js is called and runs to
\* its return or to the rateLimit() of the IGDB request
igdbResolvePlatformData(p, appid, gameName, tokenResult) ==
    /\ igdb[p].pc = "idle"
    /\ igdbCalls' = igdbCalls + 1
    /\ LET c == [IdleIgdb EXCEPT !.callNo = igdbCalls + 1,
                                 !.games = <<Game(appid, gameName)>>]
           cached == getFromCache(appid)
           override == MANUAL_OVERRIDES[appid]
       IN  IF cached # Null
           THEN IF cached.gameName # gameName
                THEN LET entry == igdbRenamed(cached, gameName)
                     IN  igdbReturn(p, c, <<Result(entry, TRUE, FALSE, TRUE)>>,
                                    NoResponse, saveToCache(storage, entry))
                ELSE igdbReturn(p, c, <<Result(cached, TRUE, FALSE, FALSE)>>,
                                NoResponse, storage)
           ELSE IF override # Null
           THEN LET entry == igdbManualEntry(appid, gameName, override)
                IN  igdbReturn(p, c, <<Result(entry, FALSE, FALSE, TRUE)>>,
                               NoResponse, saveToCache(storage, entry))
           ELSE IF tokenResult = Null
           THEN LET entry == igdbCreateFallbackEntry(appid, gameName)
                IN  igdbReturn(p, c, <<Result(entry, FALSE, FALSE, TRUE)>>,
                               NoResponse, saveToCache(storage, entry))
           ELSE /\ igdbRateLimit(p, c)
                /\ igdbRet' = [igdbRet EXCEPT ![p] = NoRet]
                /\ UNCHANGED storage
    /\ UNCHANGED <<now, tm, reviewVars, wdVars>>

\* batchResolvePlatformData(games) of resolver.js is called and runs to its
\* return or to the rateLimit() of the one batched IGDB request
igdbBatchResolvePlatformData(p, games, tokenResult) ==
    /\ igdb[p].pc = "idle"
    /\ igdbCalls' = igdbCalls + 1
    /\ LET uncached == SelectSeq(games, LAMBDA g : getFromCache(g.appid) = Null)
           fromCache == MapSeq(SelectSeq(games, LAMBDA g : getFromCache(g.appid) # Null),
                               LAMBDA g : Result(getFromCache(g.appid), TRUE, FALSE, FALSE))
           needsIGDB == SelectSeq(uncached, LAMBDA g : MANUAL_OVERRIDES[g.appid] = Null)
           manual == MapSeq(SelectSeq(uncached, LAMBDA g : MANUAL_OVERRIDES[g.appid] # Null),
                            LAMBDA g : Result(igdbManualEntry(g.appid, g.gameName,
                                                              MANUAL_OVERRIDES[g.appid]),
                                              FALSE, FALSE, TRUE))
           fallbacks == MapSeq(needsIGDB,
                               LAMBDA g : Result(igdbCreateFallbackEntry(g.appid, g.gameName),
                                                 FALSE, FALSE, TRUE))
           afterManual == saveAllToCache(storage, MapSeq(manual, LAMBDA r : r.entry))
           c == [IdleIgdb EXCEPT !.callNo = igdbCalls + 1, !.batch = TRUE,
                                 !.games = needsIGDB, !.results = fromCache \o manual]
       IN  IF uncached = <<>> \/ needsIGDB = <<>>
           THEN igdbReturn(p, c, fromCache \o manual, NoResponse, afterManual)
           ELSE IF tokenResult = Null
           THEN igdbReturn(p, c, fromCache \o manual \o fallbacks, NoResponse,
                           saveAllToCache(afterManual, MapSeq(fallbacks, LAMBDA r : r.entry)))
           ELSE /\ igdbRateLimit(p, c)
                /\ igdbRet' = [igdbRet EXCEPT ![p] = NoRet]
                /\ storage' = afterManual
    /\ UNCHANGED <<now, tm, reviewVars, wdVars>>

\* The timer of p's rateLimit() fires: lastRequestTime is set and fetch() called
IgdbRateLimitOver(p) ==
    /\ igdb[p].pc = "limited"
    /\ now >= igdb[p].wakeAt
    /\ igdbFetch(p, igdb[p])
    /\ UNCHANGED <<now, storage, igdbRet, igdbCalls, tm, reviewVars, wdVars>>

\* The response to p's IGDB request arrives: makeRequest returns to the
\* lookup and the resolver runs to its return, or makeRequest starts its wait
IgdbRespond(p, response) ==
    /\ igdb[p].pc = "fetching"
    /\ LET c == igdb[p]
           step == makeRequest(response)
       IN  IF step.k = "retry"
           THEN /\ igdb' = [igdb EXCEPT ![p].pc = "retrywait",
                                        ![p].wakeAt = now + step.waitMs]
                /\ UNCHANGED <<storage, igdbRet, lastRequestTime, igdbFetches,
                               igdbLastFetchAt>>
           ELSE IF c.test
           THEN testConnectionReturn(p, c, step.value, response)
           ELSE IF ~c.batch
           THEN LET g == c.games[1]
                    igdbResult == resolvePlatformAvailability(
                                      lookupBySteamId(step.value), g.gameName)
                    entry == igdbResultToCacheEntry(g.appid, g.gameName, igdbResult)
                IN  igdbReturn(p, c, <<Result(entry, FALSE, TRUE, TRUE)>>, response,
                               saveToCache(storage, entry))
           ELSE LET resolved ==
                        MapSeq(c.games, LAMBDA g :
                            Result(igdbResultToCacheEntry(g.appid, g.gameName,
                                       resolvePlatformAvailability(
                                           batchLookupBySteamIds(step.value, g.appid),
                                           g.gameName)),
                                   FALSE, TRUE, TRUE))
                    fallbacks ==
                        MapSeq(c.games, LAMBDA g :
                            Result(igdbCreateFallbackEntry(g.appid, g.gameName),
                                   FALSE, TRUE, TRUE))
                    fresh == IF batchLookupThrows(step.value) THEN fallbacks ELSE resolved
                IN  igdbReturn(p, c, c.results \o fresh, response,
                               saveAllToCache(storage, MapSeq(fresh, LAMBDA r : r.entry)))
    /\ UNCHANGED <<now, igdbCalls, tm, reviewVars, wdVars>>

\* The wait after a 429 is over: makeRequest calls itself and awaits rateLimit()
IgdbRetry(p) ==
    /\ igdb[p].pc = "retrywait"
    /\ now >= igdb[p].wakeAt
    /\ igdbRateLimit(p, igdb[p])
    /\ UNCHANGED <<now, storage, igdbRet, igdbCalls, tm, reviewVars, wdVars>>

\* ------------------------------------------------------------------------
\* tokenManager.js: the Twitch credentials and the OAuth token of the IGDB
\* requests.  tm.credentials and tm.token are the rows of chrome.storage.local
\* under CREDENTIALS_STORAGE_KEY and TOKEN_STORAGE_KEY, which no other module
\* reads or writes; tm.valid is each caller's position in getValidToken,
\* tm.save the position of saveCredentials.  A call of chrome.storage.local
\* takes effect when it is made and its promise resolves in a later turn.
TOKEN_BUFFER_SECONDS == 300
ClientIds == {"A", "B"}

\* The row saveCredentials writes; the secret is named after its client id
TwitchCredentials(clientId) == [clientId |-> clientId, clientSecret |-> clientId]

\* What id.twitch.tv may answer to the client-credentials request: the
\* access token it issues is the one of the client id that asked
TokenResponses(credentials) ==
    {Threw, Http(401), Ok(JsonObject)}
    \cup {Ok([access_token |-> [issuedTo |-> credentials.clientId],
              expires_in |-> s]) : s \in {TOKEN_BUFFER_SECONDS, 3 * TOKEN_BUFFER_SECONDS}}

IdleValid == [pc |-> "idle", credentials |-> Null, token |-> Null]
InitTokenManager ==
    [credentials |-> Null, token |-> Null,
     valid |-> [p \in Callers |-> IdleValid],
     ret |-> [p \in Callers |-> NoRet],
     save |-> "idle", calls |-> 0, saves |-> 0]

\* getCredentials, from the row read
getCredentials(creds) ==
    IF creds # Null /\ creds.clientId # "" /\ creds.clientSecret # "" THEN creds ELSE Null

\* getStoredToken, from the row read: null when the token expires within
\* TOKEN_BUFFER_SECONDS
getStoredToken(token) ==
    IF token = Null THEN Null
    ELSE IF token.expiresAt - (TOKEN_BUFFER_SECONDS * 1000) <= now THEN Null
    ELSE token

\* acquireToken, from the response to its request: the token to store, or null
acquireToken(response) ==
    IF response.kind = "throw" THEN Null
    ELSE IF ~response.ok THEN Null
    ELSE IF response.body = JsonObject THEN Null
    ELSE [accessToken |-> response.body.access_token,
          expiresAt |-> now + (response.body.expires_in * 1000)]

\* getValidToken returns value to p
validTokenReturn(p, value) ==
    tm' = [tm EXCEPT !.valid[p] = IdleValid, !.ret[p] = [value |-> value]]

\* getValidToken() is called and getCredentials reads the credentials row
getValidToken(p) ==
    /\ tm.valid[p].pc = "idle"
    /\ tm' = [tm EXCEPT !.valid[p] = [IdleValid EXCEPT !.pc = "getCredentials",
                                                       !.credentials = tm.credentials],
                        !.ret[p] = NoRet,
                        !.calls = @ + 1]
    /\ UNCHANGED <<now, storage, lastRequestTime, igdb, igdbRet, igdbFetches,
                   igdbLastFetchAt, igdbCalls, reviewVars, wdVars>>

\* getCredentials has returned to p: without credentials getValidToken
\* returns null, otherwise getStoredToken reads the token row
CredentialsRead(p) ==
    /\ tm.valid[p].pc = "getCredentials"
    /\ LET credentials == getCredentials(tm.valid[p].credentials)
       IN  IF credentials = Null
           THEN validTokenReturn(p, Null)
           ELSE tm' = [tm EXCEPT !.valid[p].pc = "getStoredToken",
                                 !.valid[p].token = tm.token]
    /\ UNCHANGED <<now, storage, lastRequestTime, igdb, igdbRet, igdbFetches,
                   igdbLastFetchAt, igdbCalls, reviewVars, wdVars>>

\* getStoredToken has returned to p: a valid token is returned with the
\* client id of the credentials read, otherwise acquireToken sends its request
StoredTokenRead(p) ==
    /\ tm.valid[p].pc = "getStoredToken"
    /\ LET token == getStoredToken(tm.valid[p].token)
       IN  IF token # Null
           THEN validTokenReturn(p, [accessToken |-> token.accessToken,
                                     clientId |-> tm.valid[p].credentials.clientId])
           ELSE tm' = [tm EXCEPT !.valid[p].pc = "acquireToken",
                                 !.valid[p].token = Null]
    /\ UNCHANGED <<now, storage, lastRequestTime, igdb, igdbRet, igdbFetches,
                   igdbLastFetchAt, igdbCalls, reviewVars, wdVars>>

\* The response to p's token request arrives: acquireToken stores the token,
\* or returns null and so does getValidToken
TokenRespond(p, response) ==
    /\ tm.valid[p].pc = "acquireToken"
    /\ LET token == acquireToken(response)
       IN  IF token = Null
           THEN validTokenReturn(p, Null)
           ELSE tm' = [tm EXCEPT !.token = token,
                                 !.valid[p].pc = "storeToken",
                                 !.valid[p].token = token]
    /\ UNCHANGED <<now, storage, lastRequestTime, igdb, igdbRet, igdbFetches,
                   igdbLastFetchAt, igdbCalls, reviewVars, wdVars>>

\* The token is stored: acquireToken returns it and getValidToken returns it
\* with the client id of the credentials read
TokenStored(p) ==
    /\ tm.valid[p].pc = "storeToken"
    /\ validTokenReturn(p, [accessToken |-> tm.valid[p].token.accessToken,
                            clientId |-> tm.valid[p].credentials.clientId])
    /\ UNCHANGED <<now, storage, lastRequestTime, igdb, igdbRet, igdbFetches,
                   igdbLastFetchAt, igdbCalls, reviewVars, wdVars>>

\* saveCredentials(clientId, clientSecret) is called and writes the
\* credentials row
saveCredentials(clientId) ==
    /\ tm.save = "idle"
    /\ tm' = [tm EXCEPT !.credentials = TwitchCredentials(clientId),
                        !.save = "removeToken",
                        !.saves = @ + 1]
    /\ UNCHANGED <<now, storage, lastRequestTime, igdb, igdbRet, igdbFetches,
                   igdbLastFetchAt, igdbCalls, reviewVars, wdVars>>

\* The credentials are written: saveCredentials removes the token row
SaveRemovesToken ==
    /\ tm.save = "removeToken"
    /\ tm' = [tm EXCEPT !.token = Null, !.save = "idle"]
    /\ UNCHANGED <<now, storage, lastRequestTime, igdb, igdbRet, igdbFetches,
                   igdbLastFetchAt, igdbCalls, reviewVars, wdVars>>

\* clearCredentials() removes both rows in one call
clearCredentials ==
    /\ tm' = [tm EXCEPT !.credentials = Null, !.token = Null, !.saves = @ + 1]
    /\ UNCHANGED <<now, storage, lastRequestTime, igdb, igdbRet, igdbFetches,
                   igdbLastFetchAt, igdbCalls, reviewVars, wdVars>>

\* ------------------------------------------------------------------------
\* Wikidata client: what a query can answer
\* ------------------------------------------------------------------------
Qid(q) == [t |-> "qid", v |-> q]
NoStoreIds == [eshop |-> Null, psStore |-> Null, xbox |-> Null]
WikidataNotFound(gameName) ==
    [found |-> FALSE, wikidataId |-> Null, gameName |-> gameName,
     platforms |-> [nintendo |-> FALSE, playstation |-> FALSE, xbox |-> FALSE],
     storeIds |-> NoStoreIds]
WikidataFound(gameName) ==
    [found |-> TRUE, wikidataId |-> Qid(<<"Q", "4", "2">>), gameName |-> gameName,
     platforms |-> [nintendo |-> TRUE, playstation |-> FALSE, xbox |-> TRUE],
     storeIds |-> [NoStoreIds EXCEPT !.eshop = [t |-> "storeId", v |-> "e1"]]]
WikidataResults ==
    {WikidataNotFound(<<>>), WikidataFound(<<"Q", "4", "2">>), WikidataFound(<<"Z">>)}

\* A query throws, or answers with a value: one result, or for a batch a map
\* that may lack an item
QueryThrew == [threw |-> TRUE]
QueryAnswer(v) == [threw |-> FALSE, value |-> v]
QueryOutcomes(c) ==
    {QueryThrew} \cup
    IF c.batch
    THEN {QueryAnswer(m) :
             m \in [{c.games[i].appid : i \in 1..Len(c.games)} ->
                       {Null, WikidataNotFound(<<>>), WikidataFound(<<"Z">>)}]}
    ELSE {QueryAnswer(r) : r \in WikidataResults}

\* The official store URL of a platform, when Wikidata holds the store id
getStoreUrl(platform, storeIds) ==
    LET id == CASE platform = "nintendo" -> storeIds.eshop
                [] platform = "playstation" -> storeIds.psStore
                [] platform = "xbox" -> storeIds.xbox
    IN  IF id = Null THEN Null ELSE OfficialUrl(platform, TRUE)

\* ------------------------------------------------------------------------
\* Wikidata resolver (resolver.ts)
\* ------------------------------------------------------------------------
Digits == {"0", "1", "2", "3", "4", "5", "6", "7", "8", "9"}
isWikidataQID(str) ==
    /\ Len(str) >= 2
    /\ str[1] = "Q"
    /\ \A i \in 2..Len(str) : str[i] \in Digits

\* Mutant: the status follows the platform flag even when nothing was found
getPlatformStatus_ignoresFound(available, foundInWikidata) ==
    IF available THEN "available" ELSE "unavailable"

getPlatformStatus(available, foundInWikidata) ==
    IF ~foundInWikidata THEN "unknown"
    ELSE IF available THEN "available" ELSE "unavailable"

createFallbackEntry(appid, gameName) ==
    [appid |-> appid, gameName |-> gameName,
     platforms |-> [pl \in PLATFORMS |->
                       [status |-> "unknown", storeUrl |-> StoreUrls(pl, gameName)]],
     source |-> "fallback", wikidataId |-> Null, resolvedAt |-> now, ttlDays |-> 7]

createManualOverrideEntry(appid, gameName, override) ==
    [appid |-> appid, gameName |-> gameName,
     platforms |-> [pl \in PLATFORMS |->
                       [status |-> overrideStatus(override, pl),
                        storeUrl |-> StoreUrls(pl, gameName)]],
     source |-> "manual", wikidataId |-> Null, resolvedAt |-> now, ttlDays |-> 7]

wikidataResultToCacheEntry(appid, gameName, wikidataResult) ==
    LET wikidataName == wikidataResult.gameName
        displayName == IF wikidataName # <<>> /\ ~isWikidataQID(wikidataName)
                       THEN wikidataName ELSE gameName
        getUrl(platform) ==
            LET officialUrl == getStoreUrl(platform, wikidataResult.storeIds)
            IN  IF officialUrl # Null /\ officialUrl # EmptyUrl THEN officialUrl
                ELSE StoreUrls(platform, displayName)
    IN  [appid |-> appid, gameName |-> displayName,
         platforms |-> [pl \in PLATFORMS |->
                           [status |-> getPlatformStatus(wikidataResult.platforms[pl],
                                                         wikidataResult.found),
                            storeUrl |-> getUrl(pl)]],
         source |-> IF wikidataResult.found THEN "wikidata" ELSE "fallback",
         wikidataId |-> wikidataResult.wikidataId, resolvedAt |-> now, ttlDays |-> 7]

\* The cached entry under a new game name: the search URLs of platforms of
\* unknown status follow the name
updateCachedEntryIfNeeded(cached, gameName) ==
    IF cached.gameName = gameName THEN cached
    ELSE [cached EXCEPT !.gameName = gameName,
                        !.platforms = [pl \in PLATFORMS |->
                            IF @[pl].status = "unknown"
                            THEN [@[pl] EXCEPT !.storeUrl = StoreUrls(pl, gameName)]
                            ELSE @[pl]]]

\* Mutant: the fallback entries of a failed query are saved like any other
onQueryFailure_saves(store, fallbacks) == saveAllToCache(store, fallbacks)

\* The catch branches: the fallback entries of a failed query are returned
\* and the store is left as it is
onQueryFailure(store, fallbacks) == store

IdleWd == [pc |-> "idle", callNo |-> 0, queryNo |-> 0, batch |-> FALSE,
           refresh |-> FALSE, games |-> <<>>, results |-> <<>>]

\* The resolver returns results to p, having left newStorage behind
wdReturn(p, c, results, threw, newStorage) ==
    /\ storage' = newStorage
    /\ wdRet' = [wdRet EXCEPT ![p] = [batch |-> c.batch, results |-> results,
                                      threw |-> threw, queryNo |-> c.queryNo,
                                      queries |-> wdQueries, refresh |-> c.refresh]]
    /\ wd' = [wd EXCEPT ![p] = [c EXCEPT !.pc = "idle"]]

\* The resolver awaits the answer of WikidataClient
wdQuery(p, c, newStorage) ==
    /\ storage' = newStorage
    /\ wd' = [wd EXCEPT ![p] = [c EXCEPT !.pc = "query", !.queryNo = wdQueries + 1]]
    /\ wdRet' = [wdRet EXCEPT ![p] = NoRet]
    /\ wdQueries' = wdQueries + 1

\* A resolver that consults the manual overrides before the cache
resolveFrom_overrideFirst(p, appid, gameName, store, cached) ==
    LET c == [IdleWd EXCEPT !.callNo = wdCalls + 1,
                            !.refresh = (wd[p].pc = "refreshing"),
                            !.games = <<Game(appid, gameName)>>]
        override == MANUAL_OVERRIDES[appid]
    IN  IF override # Null
        THEN LET entry == createManualOverrideEntry(appid, gameName, override)
             IN  /\ wdReturn(p, c, <<Result(entry, FALSE, FALSE, TRUE)>>, FALSE,
                             saveToCache(store, entry))
                 /\ UNCHANGED wdQueries
        ELSE IF cached # Null
        THEN /\ wdReturn(p, c, <<Result(cached, TRUE, FALSE, FALSE)>>, FALSE, store)
             /\ UNCHANGED wdQueries
        ELSE wdQuery(p, c, store)

\* resolvePlatformData from the store and the value getFromCache returned
resolveFrom(p, appid, gameName, store, cached) ==
    LET c == [IdleWd EXCEPT !.callNo = wdCalls + 1,
                            !.refresh = (wd[p].pc = "refreshing"),
                            !.games = <<Game(appid, gameName)>>]
        override == MANUAL_OVERRIDES[appid]
    IN  IF cached # Null
        THEN LET entry == updateCachedEntryIfNeeded(cached, gameName)
             IN  /\ wdReturn(p, c, <<Result(entry, TRUE, FALSE, entry # cached)>>, FALSE,
                             IF entry # cached THEN saveToCache(store, entry) ELSE store)
                 /\ UNCHANGED wdQueries
        ELSE IF override # Null
        THEN LET entry == createManualOverrideEntry(appid, gameName, override)
             IN  /\ wdReturn(p, c, <<Result(entry, FALSE, FALSE, TRUE)>>, FALSE,
                             saveToCache(store, entry))
                 /\ UNCHANGED wdQueries
        ELSE wdQuery(p, c, store)

\* resolvePlatformData(appid, gameName) is called and runs to its return or
\* to the await of WikidataClient.queryBySteamAppId
resolvePlatformData(p, appid, gameName) ==
    /\ wd[p].pc = "idle"
    /\ wdCalls' = wdCalls + 1
    /\ resolveFrom(p, appid, gameName, storage, getFromCache(appid))
    /\ UNCHANGED <<now, reviewVars, igdbVars>>

\* Mutant: a refresh that leaves the stored row in place
forceRefresh_keepsRow(p, appid, gameName) ==
    /\ wd[p].pc = "idle"
    /\ storage' = storage
    /\ wd' = [wd EXCEPT ![p] = [IdleWd EXCEPT !.pc = "refreshing", !.refresh = TRUE,
                                              !.games = <<Game(appid, gameName)>>]]
    /\ wdRet' = [wdRet EXCEPT ![p] = NoRet]
    /\ UNCHANGED <<now, wdQueries, wdCalls, reviewVars, igdbVars>>

\* forceRefresh(appid, gameName) is called: the row is removed, and
\* forceRefresh awaits chrome.storage.local.remove
forceRefresh(p, appid, gameName) ==
    /\ wd[p].pc = "idle"
    /\ storage' = [storage EXCEPT ![getCacheKey(appid)] = NoRow]
    /\ wd' = [wd EXCEPT ![p] = [IdleWd EXCEPT !.pc = "refreshing", !.refresh = TRUE,
                                              !.games = <<Game(appid, gameName)>>]]
    /\ wdRet' = [wdRet EXCEPT ![p] = NoRet]
    /\ UNCHANGED <<now, wdQueries, wdCalls, reviewVars, igdbVars>>

\* The removal has settled: forceRefresh calls resolvePlatformData, which
\* reads the cache
RefreshResolves(p) ==
    /\ wd[p].pc = "refreshing"
    /\ wdCalls' = wdCalls + 1
    /\ resolveFrom(p, wd[p].games[1].appid, wd[p].games[1].gameName,
                   storage, getFromCache(wd[p].games[1].appid))
    /\ UNCHANGED <<now, reviewVars, igdbVars>>

\* A batch resolver that sends every uncached item to Wikidata, the items
\* with a manual override included
batchResolvePlatformData_queriesOverridden(p, games) ==
    /\ wd[p].pc = "idle"
    /\ wdCalls' = wdCalls + 1
    /\ LET uncached == SelectSeq(games, LAMBDA g : getFromCache(g.appid) = Null)
           fromCache == MapSeq(SelectSeq(games, LAMBDA g : getFromCache(g.appid) # Null),
                               LAMBDA g : Result(getFromCache(g.appid), TRUE, FALSE, FALSE))
           c == [IdleWd EXCEPT !.callNo = wdCalls + 1, !.batch = TRUE,
                               !.games = uncached, !.results = fromCache]
       IN  IF uncached = <<>>
           THEN /\ wdReturn(p, c, fromCache, FALSE, storage)
                /\ UNCHANGED wdQueries
           ELSE wdQuery(p, c, storage)
    /\ UNCHANGED <<now, reviewVars, igdbVars>>

\* batchResolvePlatformData(games) is called and runs to its return or to
\* the await of WikidataClient.batchQueryBySteamAppIds
batchResolvePlatformData(p, games) ==
    /\ wd[p].pc = "idle"
    /\ wdCalls' = wdCalls + 1
    /\ LET uncached == SelectSeq(games, LAMBDA g : getFromCache(g.appid) = Null)
           fromCache == MapSeq(SelectSeq(games, LAMBDA g : getFromCache(g.appid) # Null),
                               LAMBDA g : Result(getFromCache(g.appid), TRUE, FALSE, FALSE))
           needsResolution == SelectSeq(uncached, LAMBDA g : MANUAL_OVERRIDES[g.appid] = Null)
           manual == MapSeq(SelectSeq(uncached, LAMBDA g : MANUAL_OVERRIDES[g.appid] # Null),
                            LAMBDA g : Result(createManualOverrideEntry(g.appid, g.gameName,
                                                  MANUAL_OVERRIDES[g.appid]),
                                              FALSE, FALSE, TRUE))
           afterManual == saveAllToCache(storage, MapSeq(manual, LAMBDA r : r.entry))
           c == [IdleWd EXCEPT !.callNo = wdCalls + 1, !.batch = TRUE,
                               !.games = needsResolution, !.results = fromCache \o manual]
       IN  IF uncached = <<>> \/ needsResolution = <<>>
           THEN /\ wdReturn(p, c, fromCache \o manual, FALSE, afterManual)
                /\ UNCHANGED wdQueries
           ELSE wdQuery(p, c, afterManual)
    /\ UNCHANGED <<now, reviewVars, igdbVars>>

\* The answer of WikidataClient arrives, or its promise rejects, and the
\* resolver runs to its return
QueryReturns(p, outcome) ==
    /\ wd[p].pc = "query"
    /\ LET c == wd[p]
           fallbacks == MapSeq(c.games, LAMBDA g :
                            Result(createFallbackEntry(g.appid, g.gameName),
                                   FALSE, TRUE, FALSE))
       IN  IF outcome.threw
           THEN wdReturn(p, c, c.results \o fallbacks, TRUE,
                         onQueryFailure(storage, MapSeq(fallbacks, LAMBDA r : r.entry)))
           ELSE LET resultFor(g) ==
                        IF ~c.batch THEN outcome.value
                        ELSE IF outcome.value[g.appid] # Null /\ outcome.value[g.appid].found
                             THEN outcome.value[g.appid]
                             ELSE WikidataNotFound(g.gameName)
                    resolved == MapSeq(c.games, LAMBDA g :
                                    Result(wikidataResultToCacheEntry(g.appid, g.gameName,
                                                                      resultFor(g)),
                                           FALSE, TRUE, TRUE))
                IN  wdReturn(p, c, c.results \o resolved, FALSE,
                             saveAllToCache(storage, MapSeq(resolved, LAMBDA r : r.entry)))
    /\ UNCHANGED <<now, wdQueries, wdCalls, reviewVars, igdbVars>>

\* ------------------------------------------------------------------------
\* Direct calls of the name matcher and of the score conversion
\* ------------------------------------------------------------------------
\* The strings of at most n characters over an alphabet
RECURSIVE Strings(_, _)
Strings(alphabet, n) ==
    IF n = 0 THEN {<<>>}
    ELSE LET shorter == Strings(alphabet, n - 1)
         IN  shorter \cup {Append(str, c) : str \in shorter, c \in alphabet}

\* The lists of at most n elements of a set
RECURSIVE Lists(_, _)
Lists(elements, n) ==
    IF n = 0 THEN {<<>>}
    ELSE LET shorter == Lists(elements, n - 1)
         IN  shorter \cup {Append(l, x) : l \in shorter, x \in elements}

NoProbe == [f |-> "none"]
ProbeCall(f, args) == [f |-> f, args |-> args, done |-> FALSE, result |-> Null]

\* The calls made: calculateSimilarity on pairs of short names with letters
\* of both cases, spaces and punctuation; searchGame on result lists whose
\* names match the query in every degree; the score conversion on detail
\* records with negative, zero and positive scores
QueryNames == {<<"a", " ", "b">>, <<"B">>, <<"a", "-", "b">>}
SearchResults ==
    {[id |-> 1, name |-> <<"a", " ", "b">>], [id |-> 2, name |-> <<"b", " ", "A">>],
     [id |-> 3, name |-> <<"b">>], [id |-> 4, name |-> <<"a", " ", "c">>],
     [id |-> 5, name |-> <<"c">>], [id |-> 6, name |-> <<"a", "b", " ", "c">>],
     [id |-> 7, name |-> <<"b", " ", "b">>]}
ProbeScores == {-10, -1, 0, 4, 5, 905}
ProbeInputs ==
    {ProbeCall("calculateSimilarity", <<a, b>>) :
        a \in Strings({"a", "b", "B", " ", "-"}, MaxNameLen),
        b \in Strings({"a", "b", " "}, MaxNameLen)}
    \cup {ProbeCall("searchGame", <<n, JsonArray(l)>>) :
             n \in QueryNames, l \in Lists(SearchResults, MaxResults)}
    \cup {ProbeCall("queryReviewScore", <<Details(1, TRUE, TRUE, sc, "Mighty")>>) :
             sc \in ProbeScores}

ApplyCalculateSimilarity ==
    /\ probe.f = "calculateSimilarity" /\ ~probe.done
    /\ probe' = [probe EXCEPT !.done = TRUE,
                              !.result = calculateSimilarity(probe.args[1], probe.args[2])]
    /\ UNCHANGED <<now, storage, requestQueue, turnDeadline, caller, ret, tickets,
                   fetchCount, lastFetchAt, lastTicket, calls, batch, igdbVars, wdVars>>

ApplySearchGame ==
    /\ probe.f = "searchGame" /\ ~probe.done
    /\ probe' = [probe EXCEPT !.done = TRUE,
                              !.result = searchGame(probe.args[1], probe.args[2])]
    /\ UNCHANGED <<now, storage, requestQueue, turnDeadline, caller, ret, tickets,
                   fetchCount, lastFetchAt, lastTicket, calls, batch, igdbVars, wdVars>>

\* createSlug on short names with letters of both cases, a digit, an
\* underscore, whitespace, hyphens and punctuation
SlugInputs ==
    {ProbeCall("createSlug", <<n>>) :
        n \in Strings({"a", "B", "3", "_", " ", "\t", "-", "!"}, MaxNameLen)}

ApplyCreateSlug ==
    /\ probe.f = "createSlug" /\ ~probe.done
    /\ probe' = [probe EXCEPT !.done = TRUE, !.result = createSlug(probe.args[1])]
    /\ UNCHANGED <<now, storage, requestQueue, turnDeadline, caller, ret, tickets,
                   fetchCount, lastFetchAt, lastTicket, calls, batch, igdbVars, wdVars>>

\* queryReviewScore from the detail record on
ApplyReviewScoreFromDetails ==
    /\ probe.f = "queryReviewScore" /\ ~probe.done
    /\ probe' = [probe EXCEPT !.done = TRUE,
                              !.result = reviewScoreFromDetails(probe.args[1])]
    /\ UNCHANGED <<now, storage, requestQueue, turnDeadline, caller, ret, tickets,
                   fetchCount, lastFetchAt, lastTicket, calls, batch, igdbVars, wdVars>>

\* ------------------------------------------------------------------------
\* clearReviewCache()
\* ------------------------------------------------------------------------
\* Mutant: every stored key is taken for a review key
clearReviewCache_everyKey ==
    /\ IF probe = NoProbe THEN TRUE ELSE probe.done
    /\ probe' = ProbeCall("clearReviewCache",
                          {k \in DOMAIN storage : storage[k] # NoRow})
    /\ UNCHANGED <<now, storage, requestQueue, turnDeadline, caller, ret, tickets,
                   fetchCount, lastFetchAt, lastTicket, calls, batch, igdbVars, wdVars>>

\* The call awaits chrome.storage.local.get(null) and keeps the names of the
\* stored keys that start with CACHE_KEY_PREFIX (a key is the pair of its
\* prefix and its item id)
clearReviewCache ==
    /\ IF probe = NoProbe THEN TRUE ELSE probe.done
    /\ probe' = ProbeCall("clearReviewCache",
                          {k \in DOMAIN storage :
                              storage[k] # NoRow /\ k[1] = CACHE_KEY_PREFIX})
    /\ UNCHANGED <<now, storage, requestQueue, turnDeadline, caller, ret, tickets,
                   fetchCount, lastFetchAt, lastTicket, calls, batch, igdbVars, wdVars>>

\* The read has returned: chrome.storage.local.remove(keysToRemove) is called
\* only when a key was kept, and the call returns
ClearRemoves ==
    /\ probe # NoProbe /\ probe.f = "clearReviewCache" /\ ~probe.done
    /\ storage' = IF probe.args # {}
                  THEN [k \in DOMAIN storage |->
                           IF k \in probe.args THEN NoRow ELSE storage[k]]
                  ELSE storage
    /\ probe' = [probe EXCEPT !.done = TRUE,
                              !.result = [removeCalls |-> IF probe.args # {} THEN 1 ELSE 0]]
    /\ UNCHANGED <<now, requestQueue, turnDeadline, caller, ret, tickets,
                   fetchCount, lastFetchAt, lastTicket, calls, batch, igdbVars, wdVars>>

\* ------------------------------------------------------------------------
\* getReviewCacheStats()
\* ------------------------------------------------------------------------
\* Mutant: rows past their time-to-live are left out of the statistics
getReviewCacheStats_validOnly ==
    /\ IF probe = NoProbe THEN TRUE ELSE probe.done
    /\ LET cacheEntries == {k \in DOMAIN storage :
                               /\ storage[k] # NoRow /\ k[1] = CACHE_KEY_PREFIX
                               /\ isReviewCacheValid(storage[k])}
           timestamps == {storage[k].resolvedAt : k \in cacheEntries} \ {0}
       IN  probe' = [f |-> "getReviewCacheStats", args |-> now, done |-> TRUE,
                     result |-> [count |-> Cardinality(cacheEntries),
                                 oldestEntry |->
                                     IF timestamps # {}
                                     THEN [t |-> "number",
                                           v |-> CHOOSE x \in timestamps :
                                                     \A y \in timestamps : x <= y]
                                     ELSE Null]]
    /\ UNCHANGED <<now, storage, requestQueue, turnDeadline, caller, ret, tickets,
                   fetchCount, lastFetchAt, lastTicket, calls, batch, igdbVars, wdVars>>

\* The call awaits chrome.storage.local.get(null) and counts the values whose
\* key starts with CACHE_KEY_PREFIX; oldestEntry is the least truthy
\* resolvedAt among them, or null
getReviewCacheStats ==
    /\ IF probe = NoProbe THEN TRUE ELSE probe.done
    /\ LET cacheEntries == {k \in DOMAIN storage :
                               storage[k] # NoRow /\ k[1] = CACHE_KEY_PREFIX}
           timestamps == {storage[k].resolvedAt : k \in cacheEntries} \ {0}
       IN  probe' = [f |-> "getReviewCacheStats", args |-> now, done |-> TRUE,
                     result |-> [count |-> Cardinality(cacheEntries),
                                 oldestEntry |->
                                     IF timestamps # {}
                                     THEN [t |-> "number",
                                           v |-> CHOOSE x \in timestamps :
                                                     \A y \in timestamps : x <= y]
                                     ELSE Null]]
    /\ UNCHANGED <<now, storage, requestQueue, turnDeadline, caller, ret, tickets,
                   fetchCount, lastFetchAt, lastTicket, calls, batch, igdbVars, wdVars>>

\* ------------------------------------------------------------------------
\* Message handlers of the service worker (background script)
\* ------------------------------------------------------------------------
\* The globals a handler may find missing, and the messages sent: a message
\* has a type or none, and it is valid if its appid and gameName are both
\* non-empty (or, for a batch, its games are a non-empty array). needsQuery
\* says whether some item of a batch has neither a valid row nor an override.
Dependencies == {"XCPW_Resolver", "XCPW_ReviewScores", "XCPW_Cache", "XCPW_WikidataClient"}
HandledTypes == {"GET_PLATFORM_DATA", "GET_PLATFORM_DATA_BATCH", "UPDATE_CACHE",
                 "GET_CACHE_STATS", "CLEAR_CACHE", "GET_REVIEW_SCORE",
                 "GET_REVIEW_SCORE_BATCH"}
Str(v) == [t |-> "string", v |-> v]
MessageInputs ==
    {[f |-> "handleMessage",
      args |-> [message |-> [type |-> t, valid |-> v], loaded |-> l, needsQuery |-> n],
      pc |-> "received", done |-> FALSE, result |-> Null] :
        t \in {Null} \cup {Str(x) : x \in HandledTypes \cup {"PING"}},
        v \in BOOLEAN, l \in SUBSET Dependencies, n \in BOOLEAN}

\* getPlatformData(message): the resolver's resolvePlatformData throws when
\* XCPW_Cache or XCPW_WikidataClient is missing
getPlatformData(message, loaded) ==
    IF ~message.valid THEN [success |-> FALSE, error |-> Null]
    ELSE IF "XCPW_Resolver" \notin loaded
    THEN [success |-> FALSE, error |-> Str("Resolver not loaded")]
    ELSE IF "XCPW_Cache" \notin loaded \/ "XCPW_WikidataClient" \notin loaded
    THEN Thrown
    ELSE [success |-> TRUE, error |-> Null]

\* getBatchPlatformData(message): batchResolvePlatformData calls
\* Cache.getFromCache outside its try block and
\* WikidataClient.batchQueryBySteamAppIds inside it, where the catch branch
\* answers with fallback entries
getBatchPlatformData(message, loaded, needsQuery) ==
    IF ~message.valid THEN [success |-> FALSE, error |-> Null]
    ELSE IF "XCPW_Resolver" \notin loaded
    THEN [success |-> FALSE, error |-> Str("Resolver not loaded")]
    ELSE IF "XCPW_Cache" \notin loaded
    THEN Thrown
    ELSE [success |-> TRUE, error |-> Null]

\* updateCache(message): XCPW_Resolver.forceRefresh is called unguarded, and
\* forceRefresh ends in resolvePlatformData
updateCache(message, loaded) ==
    IF ~message.valid THEN [success |-> FALSE, error |-> Null]
    ELSE IF "XCPW_Resolver" \notin loaded
    THEN Thrown
    ELSE IF "XCPW_Cache" \notin loaded \/ "XCPW_WikidataClient" \notin loaded
    THEN Thrown
    ELSE [success |-> TRUE, error |-> Null]

\* getReviewScore(message) and getBatchReviewScores(message)
getReviewScore(message, loaded) ==
    IF ~message.valid THEN [success |-> FALSE, error |-> Null]
    ELSE IF "XCPW_ReviewScores" \notin loaded
    THEN [success |-> FALSE, error |-> Str("ReviewScores client not loaded")]
    ELSE [success |-> TRUE, error |-> Null]

getBatchReviewScores(message, loaded) ==
    IF ~message.valid THEN [success |-> FALSE, error |-> Null]
    ELSE IF "XCPW_ReviewScores" \notin loaded
    THEN [success |-> FALSE, error |-> Str("ReviewScores client not loaded")]
    ELSE [success |-> TRUE, error |-> Null]

\* handleMessage(message, sender, sendResponse): a message without a type or
\* with an unknown type is answered at once; for any other, handleAsync is
\* started with the handler of the type
handleMessage ==
    /\ probe # NoProbe /\ probe.f = "handleMessage" /\ probe.pc = "received"
    /\ LET m == probe.args.message
       IN  IF m.type = Null
           THEN probe' = [probe EXCEPT !.pc = "responded", !.done = TRUE,
                              !.result = [success |-> FALSE,
                                          error |-> Str("Invalid message format")]]
           ELSE IF m.type.v \notin HandledTypes
           THEN probe' = [probe EXCEPT !.pc = "responded", !.done = TRUE,
                              !.result = [success |-> FALSE,
                                          error |-> Str("Unknown message type")]]
           ELSE probe' = [probe EXCEPT !.pc = "pending"]
    /\ UNCHANGED <<now, storage, requestQueue, turnDeadline, caller, ret, tickets,
                   fetchCount, lastFetchAt, lastTicket, calls, batch, igdbVars, wdVars>>

\* handleAsync(handler, sendResponse, errorResponse): the handler settles;
\* its result is sent, or errorResponse if it threw. No errorResponse that
\* handleMessage passes has an error field. handleGetCacheStats and
\* handleClearCache call XCPW_Cache unguarded.
handleAsync ==
    /\ probe # NoProbe /\ probe.f = "handleMessage" /\ probe.pc = "pending"
    /\ LET m == probe.args.message
           loaded == probe.args.loaded
           type == m.type.v
           cacheCall == IF "XCPW_Cache" \notin loaded THEN Thrown
                        ELSE [success |-> TRUE, error |-> Null]
           result ==
               CASE type = "GET_PLATFORM_DATA" -> getPlatformData(m, loaded)
                 [] type = "GET_PLATFORM_DATA_BATCH" ->
                        getBatchPlatformData(m, loaded, probe.args.needsQuery)
                 [] type = "UPDATE_CACHE" -> updateCache(m, loaded)
                 [] type = "GET_CACHE_STATS" -> cacheCall
                 [] type = "CLEAR_CACHE" -> cacheCall
                 [] type = "GET_REVIEW_SCORE" -> getReviewScore(m, loaded)
                 [] type = "GET_REVIEW_SCORE_BATCH" -> getBatchReviewScores(m, loaded)
           errorResponse == [success |-> FALSE, error |-> Null]
       IN  probe' = [probe EXCEPT !.pc = "responded", !.done = TRUE,
                          !.result = IF result = Thrown THEN errorResponse ELSE result]
    /\ UNCHANGED <<now, storage, requestQueue, turnDeadline, caller, ret, tickets,
                   fetchCount, lastFetchAt, lastTicket, calls, batch, igdbVars, wdVars>>

InitState ==
    /\ now = StartTime
    /\ storage = [k \in StorageKeys |-> NoRow]
    /\ requestQueue = <<>>
    /\ turnDeadline = NoTime
    /\ caller = [p \in Callers |-> IdleCaller]
    /\ ret = [p \in Callers |-> NoRet]
    /\ tickets = 0
    /\ fetchCount = 0
    /\ lastFetchAt = NoTime
    /\ lastTicket = 0
    /\ calls = 0
    /\ batch = [p \in Callers |-> IdleBatch]
    /\ lastRequestTime = 0 - EpochOffset
    /\ igdb = [p \in Callers |-> IdleIgdb]
    /\ igdbRet = [p \in Callers |-> NoRet]
    /\ igdbFetches = 0
    /\ igdbLastFetchAt = NoTime
    /\ igdbCalls = 0
    /\ tm = InitTokenManager
    /\ wd = [p \in Callers |-> IdleWd]
    /\ wdRet = [p \in Callers |-> NoRet]
    /\ wdQueries = 0
    /\ wdCalls = 0

Init == InitState /\ probe = NoProbe

InitMatcher == InitState /\ probe \in ProbeInputs
NextMatcher ==
    \/ ApplyCalculateSimilarity
    \/ ApplySearchGame
    \/ ApplyReviewScoreFromDetails

SpecMatcher == InitMatcher /\ [][NextMatcher]_vars

\* Spec: one caller of resolveReviewScore, every kind of response, and time
\* that runs past the time-to-live
Next ==
    \/ \E n \in GameNames :
         calls < MaxCalls /\ resolveReviewScore("c1", "10", n) /\ UNCHANGED batch
    \/ TurnReleased
    \/ \E p \in Callers :
         \E r \in Responses(caller[p].phase, caller[p].gameId) : Respond(p, r)
    \/ \E p \in Callers : BackoffOver(p)
    \/ \E d \in TimeSteps : Tick(d, MaxMs, MaxJumps)

Spec == Init /\ [][Next]_vars

\* SpecQueue: concurrent callers of one process, short time
QueueResponses(phase, id) ==
    IF phase = "search"
    THEN {Threw, Http(429), Ok(JsonArray(<<>>)), Ok(JsonArray(<<[id |-> 1, name |-> <<"a", "b">>]>>))}
    ELSE {Http(429), Http(500), Ok(Details(id, TRUE, TRUE, 905, "Mighty"))}
QueueTimeSteps == {250, 1000}

NextQueue ==
    \/ \E p \in Callers :
         calls < QueueMaxCalls /\ resolveReviewScore(p, "10", <<"A", "b">>)
         /\ UNCHANGED batch
    \/ TurnReleased
    \/ \E p \in Callers :
         \E r \in QueueResponses(caller[p].phase, caller[p].gameId) : Respond(p, r)
    \/ \E p \in Callers : BackoffOver(p)
    \/ \E d \in QueueTimeSteps : Tick(d, QueueMaxMs, 0)

SpecQueue == Init /\ [][NextQueue]_vars

\* SpecQueueLive: concurrent callers with a clock that runs as long as a
\* timer is pending, and with timers that fire. No response has to arrive;
\* one that arrives is a failure, a 429 or an empty list.
LiveResponses == {Threw, Http(429), Ok(JsonArray(<<>>))}
TimePasses ==
    /\ \/ requestQueue # <<>> /\ now < turnDeadline
       \/ \E p \in Callers : caller[p].pc = "backoff" /\ now < caller[p].wakeAt
    /\ now' = now + REQUEST_DELAY_MS
    /\ UNCHANGED <<storage, reviewVars, igdbVars, wdVars>>

NextQueueLive ==
    \/ \E p \in Callers :
         calls < LiveMaxCalls /\ resolveReviewScore(p, "10", <<"A", "b">>)
         /\ UNCHANGED batch
    \/ TurnReleased
    \/ \E p \in Callers :
         \E r \in LiveResponses : Respond(p, r)
    \/ \E p \in Callers : BackoffOver(p)
    \/ TimePasses

SpecQueueLive ==
    Init /\ [][NextQueueLive]_vars /\ WF_vars(TurnReleased) /\ WF_vars(TimePasses)

\* SpecTokens: callers of getValidToken while the options page saves and
\* clears credentials and stored tokens age
NextTokens ==
    \/ \E p \in Callers : tm.calls < TokenMaxCalls /\ getValidToken(p)
    \/ \E p \in Callers : CredentialsRead(p)
    \/ \E p \in Callers : StoredTokenRead(p)
    \/ \E p \in Callers :
         /\ tm.valid[p].pc = "acquireToken"
         /\ \E r \in TokenResponses(tm.valid[p].credentials) : TokenRespond(p, r)
    \/ \E p \in Callers : TokenStored(p)
    \/ \E c \in ClientIds : tm.saves < TokenMaxSaves /\ saveCredentials(c)
    \/ SaveRemovesToken
    \/ tm.saves < TokenMaxSaves /\ clearCredentials
    \/ Tick(TOKEN_BUFFER_SECONDS * 1000, TokenMaxMs, 0)

SpecTokens == Init /\ [][NextTokens]_vars

\* One caller of batchResolveReviewScores and of resolveReviewScore; the
\* clock stays far from the expiry of a row
ReviewGames == <<Game("10", <<"A", "b">>), Game("20", <<"c">>)>>
ReviewBatches == {<<>>, SubSeq(ReviewGames, 1, 1), ReviewGames}
BatchResponses(phase, id) ==
    IF phase = "search"
    THEN {Http(500), Ok(JsonArray(<<>>)), Ok(JsonArray(<<[id |-> 1, name |-> <<"a", "b">>]>>))}
    ELSE {Http(500), Ok(Details(id, TRUE, TRUE, 905, "Mighty"))}
BatchTimeSteps == {1000}
NextBatch ==
    \/ \E i \in 1..Len(ReviewGames) :
         /\ calls < BatchMaxCalls
         /\ batch["c1"].pc \in {"idle", "done"}
         /\ resolveReviewScore("c1", ReviewGames[i].appid, ReviewGames[i].gameName)
         /\ UNCHANGED batch
    \/ \E games \in ReviewBatches :
         calls + Len(games) <= BatchMaxCalls /\ batchResolveReviewScores("c1", games)
    \/ \E p \in Callers : BatchCheck(p)
    \/ \E p \in Callers : BatchResolveNext(p)
    \/ \E p \in Callers : BatchCollect(p)
    \/ TurnReleased
    \/ \E p \in Callers :
         \E r \in BatchResponses(caller[p].phase, caller[p].gameId) : Respond(p, r)
    \/ \E d \in BatchTimeSteps : Tick(d, BatchMaxMs, 0)

SpecBatch == Init /\ [][NextBatch]_vars

\* One caller of resolveReviewScore over a chrome.storage.local whose reads
\* and writes may fail
NextStorage ==
    \/ \E n \in GameNames :
         calls < StorageMaxCalls /\ resolveReviewScore("c1", "10", n) /\ UNCHANGED batch
    \/ \E n \in GameNames :
         calls < StorageMaxCalls /\ resolveReviewScoreReadFails("c1", "10", n)
    \/ TurnReleased
    \/ \E p \in Callers :
         \E r \in BatchResponses(caller[p].phase, caller[p].gameId) : Respond(p, r)
    \/ \E p \in Callers :
         \E r \in BatchResponses(caller[p].phase, caller[p].gameId) : RespondSaveFails(p, r)
    \/ \E d \in BatchTimeSteps : Tick(d, StorageMaxMs, 0)

SpecStorage == Init /\ [][NextStorage]_vars

\* SpecBatchDup: SpecBatch, and input lists that name one item twice
NextBatchDup ==
    \/ NextBatch
    \/ \E i \in 1..Len(ReviewGames) :
         /\ calls + 2 <= BatchMaxCalls
         /\ batchResolveReviewScores("c1", <<ReviewGames[i], ReviewGames[i]>>)

SpecBatchDup == Init /\ [][NextBatchDup]_vars

\* SpecStats: one caller resolves review scores while time runs past the
\* time-to-live; the statistics are read and the cache is cleared at any
\* moment
NextStats ==
    \/ \E a \in AppIds :
         calls < StatsMaxCalls /\ resolveReviewScore("c1", a, <<"c">>) /\ UNCHANGED batch
    \/ TurnReleased
    \/ \E p \in Callers :
         \E r \in BatchResponses(caller[p].phase, caller[p].gameId) : Respond(p, r)
    \/ getReviewCacheStats
    \/ clearReviewCache
    \/ ClearRemoves
    \/ \E d \in {StatsMaxMs, TTL_MS} : Tick(d, StatsMaxMs, StatsMaxJumps)

SpecStats == Init /\ [][NextStats]_vars

\* SpecSlug: one call of createSlug
InitSlug == InitState /\ probe \in SlugInputs
SpecSlug == InitSlug /\ [][ApplyCreateSlug]_vars

\* SpecMessages: one message to the service worker, with any of its
\* dependencies loaded or missing
InitMessages == InitState /\ probe \in MessageInputs
NextMessages ==
    \/ handleMessage
    \/ handleAsync

SpecMessages == InitMessages /\ [][NextMessages]_vars

\* SpecClear: one caller fills the storage with review rows and with
\* availability rows, and the review cache is cleared at any moment
NextClear ==
    \/ \E a \in AppIds :
         calls < ClearMaxCalls /\ resolveReviewScore("c1", a, <<"c">>) /\ UNCHANGED batch
    \/ TurnReleased
    \/ \E p \in Callers :
         \E r \in BatchResponses(caller[p].phase, caller[p].gameId) : Respond(p, r)
    \/ \E a \in {"10", "30"} :
         wdCalls < ClearMaxCalls /\ resolvePlatformData("c1", a, <<"c">>)
    \/ \E p \in Callers : \E o \in QueryOutcomes(wd[p]) : QueryReturns(p, o)
    \/ clearReviewCache
    \/ ClearRemoves
    \/ \E d \in BatchTimeSteps : Tick(d, ClearMaxMs, 0)

SpecClear == Init /\ [][NextClear]_vars

\* SpecIGDB: one caller of the IGDB resolver and every kind of response
IgdbResponses(c) ==
    IF c.games = <<>> THEN {}
    ELSE {Threw, Http(429), Http(500), BadJson, Ok(JsonObject), Ok(JsonArray(<<>>))}
         \cup {Ok(JsonArray(<<g>>)) : g \in IgdbGames(c.games[1].appid)}
IgdbBatches == {<<Game("30", <<"c">>), Game("10", <<"c">>), Game("20", <<"c">>)>>}
IgdbTimeSteps == {250, 1000}

NextIGDB ==
    \/ \E n \in GameNames : \E t \in Tokens :
         igdbCalls < IgdbMaxCalls /\ igdbResolvePlatformData("c1", "10", n, t)
    \/ \E games \in IgdbBatches : \E t \in Tokens :
         igdbCalls < IgdbMaxCalls /\ igdbBatchResolvePlatformData("c1", games, t)
    \/ \E p \in Callers : IgdbRateLimitOver(p)
    \/ \E p \in Callers : \E r \in IgdbResponses(igdb[p]) : IgdbRespond(p, r)
    \/ \E p \in Callers : IgdbRetry(p)
    \/ \E d \in IgdbTimeSteps : Tick(d, IgdbMaxMs, 0)

SpecIGDB == Init /\ [][NextIGDB]_vars

\* SpecIgdbRate: concurrent callers of makeRequest, with timers that fire at
\* the very millisecond they are due
IgdbRateResponses == {Threw, Http(429), Ok(JsonArray(<<>>))}
TimersPunctual(d) ==
    \A p \in Callers :
        igdb[p].pc \in {"limited", "retrywait"} => now + d <= igdb[p].wakeAt

NextIgdbRate ==
    \/ \E p \in Callers : \E t \in Tokens \ {Null} :
         igdbCalls < IgdbRateMaxCalls /\ igdbResolvePlatformData(p, "10", <<"c">>, t)
    \/ \E p \in Callers :
         igdbCalls < IgdbRateMaxCalls /\ testConnection(p)
    \/ \E p \in Callers : IgdbRateLimitOver(p)
    \/ \E p \in Callers : \E r \in IgdbRateResponses : IgdbRespond(p, r)
    \/ \E p \in Callers : IgdbRetry(p)
    \/ \E d \in IgdbTimeSteps : TimersPunctual(d) /\ Tick(d, IgdbRateMaxMs, 0)

SpecIgdbRate == Init /\ [][NextIgdbRate]_vars

\* SpecIgdbRetry: callers of makeRequest and an API that may answer 429 again
\* and again
NextIgdbRetry ==
    \/ \E p \in Callers :
         igdbCalls < IgdbRetryMaxCalls /\ testConnection(p)
    \/ \E p \in Callers : IgdbRateLimitOver(p)
    \/ \E p \in Callers : \E r \in IgdbRateResponses : IgdbRespond(p, r)
    \/ \E p \in Callers : IgdbRetry(p)
    \/ \E d \in IgdbTimeSteps : Tick(d, IgdbRetryMaxMs, 0)

SpecIgdbRetry == Init /\ [][NextIgdbRetry]_vars

\* SpecWikidata: concurrent callers of the Wikidata resolver, and time that
\* runs past the time-to-live
WdBatches == {<<Game("30", <<"c">>), Game("10", <<"c">>), Game("20", <<"c">>)>>,
              <<Game("30", <<"c">>)>>}

NextWikidata ==
    \/ \E p \in Callers : \E a \in {"10", "30"} : \E n \in GameNames :
         wdCalls < WdMaxCalls /\ resolvePlatformData(p, a, n)
    \/ \E p \in {"c1"} :
         wdCalls + Cardinality({q \in Callers : wd[q].pc = "refreshing"}) < WdMaxCalls
         /\ forceRefresh(p, "10", <<"c">>)
    \/ \E p \in Callers : RefreshResolves(p)
    \/ \E p \in Callers : \E games \in WdBatches :
         wdCalls < WdMaxCalls /\ batchResolvePlatformData(p, games)
    \/ \E p \in Callers : \E o \in QueryOutcomes(wd[p]) : QueryReturns(p, o)
    \/ Tick(TTL_MS, 0, WdMaxJumps)

SpecWikidata == Init /\ [][NextWikidata]_vars

\* A service worker that runs the Wikidata resolver, or one that runs the
\* IGDB resolver: whichever is called first stays the one in use
NextEntries ==
    \/ \E a \in {"10", "30"} : \E n \in GameNames :
         /\ igdbCalls = 0 /\ wdCalls < EntriesMaxCalls
         /\ resolvePlatformData("c1", a, n)
    \/ \E games \in WdBatches :
         /\ igdbCalls = 0 /\ wdCalls < EntriesMaxCalls
         /\ batchResolvePlatformData("c1", games)
    \/ \E p \in Callers : \E o \in QueryOutcomes(wd[p]) : QueryReturns(p, o)
    \/ \E a \in {"10", "30"} : \E n \in GameNames : \E t \in Tokens :
         /\ wdCalls = 0 /\ igdbCalls < EntriesMaxCalls
         /\ igdbResolvePlatformData("c1", a, n, t)
    \/ \E games \in IgdbBatches : \E t \in Tokens :
         /\ wdCalls = 0 /\ igdbCalls < EntriesMaxCalls
         /\ igdbBatchResolvePlatformData("c1", games, t)
    \/ \E p \in Callers : IgdbRateLimitOver(p)
    \/ \E p \in Callers : \E r \in IgdbResponses(igdb[p]) : IgdbRespond(p, r)
    \/ \E p \in Callers : IgdbRetry(p)
    \/ \E d \in IgdbTimeSteps : Tick(d, EntriesMaxMs, 0)

SpecEntries == Init /\ [][NextEntries]_vars

\* ========================================================================
\* Claims about the review-score client
\* ========================================================================
Expired(row) == now >= row.resolvedAt + row.ttlDays * 86400000
Returns(p) == caller[p].pc = "idle" /\ ret[p] # NoRet
Queried(p) == Returns(p) /\ ~ret[p].fromCache

\* C1: getFromReviewCache(appid) is null exactly when no row is stored under
\* 'xcpw_review_' + appid or the row has expired (now >= resolvedAt +
\* ttlDays * 86400000); otherwise it is the stored row, unchanged.
C1_TtlValidity ==
    \A a \in AppIds :
        LET row == storage[<<"xcpw_review_", a>>]
        IN  /\ getFromReviewCache(a) = Null <=> (row = NoRow \/ Expired(row))
            /\ getFromReviewCache(a) # Null => getFromReviewCache(a) = row

\* A row is stored and has expired at this very millisecond or earlier
C1_Witness ==
    \E a \in AppIds :
        LET row == storage[<<"xcpw_review_", a>>]
        IN  row # NoRow /\ Expired(row) /\ getFromReviewCache(a) = Null

\* C2: a resolve that misses the cache and whose search returns an empty
\* list saves a row with score null and returns it with fromCache = false;
\* a resolve that then finds this row valid returns it with fromCache = true
\* and score null and calls neither rateLimit() nor fetch().
C2_EmptySearchSaved ==
    \A p \in Callers :
        (Queried(p) /\ caller[p].lastCall.response = Ok(JsonArray(<<>>)))
        => /\ ret[p].saved
           /\ ret[p].entry.score = Null
           /\ ret[p].entry.appid = caller[p].appid

C2_HitOnNegativeRow ==
    \A p \in Callers :
        (calls' = calls + 1 /\ caller'[p].callNo = calls')
        => LET row == storage[<<"xcpw_review_", caller'[p].appid>>]
           IN  (row # NoRow /\ ~Expired(row) /\ row.score = Null)
               => /\ ret'[p] # NoRet
                  /\ ret'[p].fromCache
                  /\ ret'[p].entry = row
                  /\ caller'[p].pc = "idle"
                  /\ fetchCount' = fetchCount
                  /\ tickets' = tickets
                  /\ storage' = storage

C2_NegativeCaching == [](C2_EmptySearchSaved) /\ [][C2_HitOnNegativeRow]_vars

\* A second resolve was served the negative row an empty search left
C2_Witness ==
    /\ calls >= 2
    /\ Returns("c1") /\ ret["c1"].fromCache /\ ret["c1"].entry.score = Null
    /\ fetchCount = 1

\* How the request that ended a resolve failed
Transient(call) ==
    \/ call.response.kind = "throw"
    \/ call.response.kind = "http" /\ ~call.response.ok
Malformed(phase, call) ==
    /\ call.response.kind = "http" /\ call.response.ok
    /\ \/ ~call.response.parses
       \/ phase = "search" /\ call.response.body.t # "array"
       \/ phase = "detail" /\ call.response.body.t # "details"
       \/ phase = "detail" /\ call.response.body.t = "details"
                           /\ ~call.response.body.hasScore

\* C3: a resolve whose search or detail request failed transiently (fetch
\* threw, a non-OK status other than 429, or 429 on the last allowed attempt)
\* writes no cache row.
C3_TransientNotCached ==
    \A p \in Callers :
        (Queried(p) /\ Transient(caller[p].lastCall)) => ~ret[p].saved

\* C6: a resolve whose response was malformed (the body does not parse, or
\* has the wrong shape) writes no cache row and returns score null with
\* fromCache = false.
C6_MalformedNotCached ==
    \A p \in Callers :
        (Queried(p) /\ Malformed(caller[p].phase, caller[p].lastCall))
        => ~ret[p].saved /\ ret[p].entry.score = Null

\* C7: two consecutive fetch() calls of one process start at least
\* REQUEST_DELAY_MS = 500 ms apart, first attempts and retries alike.
C7_MinInterval ==
    [][(fetchCount' # fetchCount /\ lastFetchAt # NoTime)
        => lastFetchAt' - lastFetchAt >= 500]_vars

\* Two callers were queued together and both have fetched
C7_Witness ==
    /\ fetchCount >= 2
    /\ \A p \in Callers : caller[p].fetches >= 1

\* C8: fetches are issued in the order of the rateLimit() invocations: the
\* k-th fetch() follows the k-th rateLimit().
C8_Fifo == lastTicket = fetchCount

\* A caller that invoked rateLimit() second has fetched, after the first
C8_Witness ==
    /\ fetchCount >= 2
    /\ \E p, q \in Callers : p # q /\ caller[p].pc = "fetching" /\ caller[q].pc = "fetching"

\* C10: when a fetchOpenCritic call that received 429 ends with an OK
\* response on a retry, it returns that response's body.
C10_RetrySuccess ==
    \A p \in Callers :
        LET call == caller[p].lastCall
        IN  (call.retries > 0 /\ call.response.kind = "http" /\ call.response.ok
                /\ call.response.parses)
            => call.value = call.response.body

\* A retry after 429 succeeded with a body that is not null
C10_Witness ==
    \E p \in Callers :
        LET call == caller[p].lastCall
        IN  /\ call.retries > 0
            /\ call.response.kind = "http" /\ call.response.ok
            /\ call.value # Null

\* ========================================================================
\* Claims about the availability resolvers
\* ========================================================================
WdResults(r) == {r.results[i] : i \in 1..Len(r.results)}
AllUnknown(entry) == \A pl \in PLATFORMS : entry.platforms[pl].status = "unknown"

\* A query of p fails in this step
C4_FailureStep(p) == wd[p].pc = "query" /\ wd'[p].pc = "idle" /\ wdRet'[p].threw
\* A query of p is answered in this step
C4_AnswerStep(p) == wd[p].pc = "query" /\ wd'[p].pc = "idle" /\ ~wdRet'[p].threw
\* The last resolve of q ended in a failed query for item a
C4_FailedFor(q, a) ==
    /\ wd[q].pc = "idle" /\ wdRet[q] # NoRet /\ wdRet[q].threw
    /\ \E r \in WdResults(wdRet[q]) : r.queried /\ r.appid = a

C4_FallbackNotSaved ==
    \A p \in Callers : C4_FailureStep(p) =>
        \A r \in WdResults(wdRet'[p]) : r.queried =>
            /\ AllUnknown(r.entry) /\ r.entry.source = "fallback"
            /\ ~r.fromCache /\ ~r.saved
            /\ storage'[<<"xcpw_cache_", r.appid>>] = storage[<<"xcpw_cache_", r.appid>>]

\* The items p's resolve was called for
C4_CallItems(c) ==
    {c.games[i].appid : i \in 1..Len(c.games)}
    \cup {c.results[i].appid : i \in 1..Len(c.results)}

C4_QueriedAgain ==
    \A p \in Callers : (wdCalls' = wdCalls + 1 /\ wd'[p].callNo = wdCalls') =>
        \A a \in C4_CallItems(wd'[p]) :
            (/\ \E q \in Callers : C4_FailedFor(q, a)
             /\ LET row == storage[<<"xcpw_cache_", a>>]
                IN  row = NoRow \/ Expired(row))
            => /\ wd'[p].pc = "query"
               /\ wdQueries' = wdQueries + 1
               /\ \E i \in 1..Len(wd'[p].games) : wd'[p].games[i].appid = a

C4_NotFoundSaved ==
    \A p \in Callers : C4_AnswerStep(p) =>
        \A r \in WdResults(wdRet'[p]) : (r.queried /\ r.entry.source = "fallback") =>
            /\ r.saved /\ ~r.fromCache
            /\ storage'[<<"xcpw_cache_", r.appid>>] = r.entry

\* C4: when the Wikidata query of resolvePlatformData or the batched query of
\* batchResolvePlatformData throws, every item of the query gets a fallback
\* entry (every platform 'unknown', source 'fallback') with fromCache = false
\* and its row is left as it was; a later resolve that finds no row for the
\* item queries Wikidata again; a not-found answer is saved.
C4_TransientNotCached ==
    [][C4_FallbackNotSaved /\ C4_QueriedAgain /\ C4_NotFoundSaved]_vars

\* A query for an item failed; a later resolve queried Wikidata for the item
\* again, was told it is not there, and saved that
C4_Witness ==
    \E p, q \in Callers : \E a \in AvailAppIds :
        /\ C4_FailedFor(q, a)
        /\ wd[p].pc = "idle" /\ wdRet[p] # NoRet /\ ~wdRet[p].threw
        /\ wdRet[p].queryNo > wdRet[q].queries
        /\ \E r \in WdResults(wdRet[p]) :
              /\ r.appid = a /\ r.queried /\ r.entry.source = "fallback"
              /\ storage[<<"xcpw_cache_", a>>] = r.entry

\* How the IGDB request that ended a resolve failed
IgdbFailed(response) ==
    \/ response.kind = "throw"
    \/ response.kind = "http" /\ ~response.ok
IgdbReturns(p) == igdb[p].pc = "idle" /\ igdbRet[p] # NoRet

\* The request of p's resolve fails in this step, and yet no row of an item
\* of the request changes
C5_FailedRequestNotCached ==
    \A p \in Callers :
        (igdb[p].pc = "fetching" /\ igdb'[p].pc = "idle" /\ IgdbFailed(igdbRet'[p].response))
        => \A r \in WdResults(igdbRet'[p]) : r.queried =>
              /\ ~r.saved
              /\ storage'[<<"xcpw_cache_", r.appid>>] = storage[<<"xcpw_cache_", r.appid>>]

\* C5: a resolve of resolver.js whose IGDB request failed (fetch threw, or a
\* non-OK status) writes no cache row for the items of the request.
C5_NoRowOnFailure == [][C5_FailedRequestNotCached]_vars

\* C9: two successive requests to the IGDB API are issued at least 250 ms
\* apart, whatever the number of concurrent callers of makeRequest.
C9_MinInterval ==
    [][(igdbFetches' # igdbFetches /\ igdbLastFetchAt # NoTime)
          => igdbLastFetchAt' - igdbLastFetchAt >= 250]_vars

\* ========================================================================
\* Claims about retries of the OpenCritic requests
\* ========================================================================
\* C11: one fetchOpenCritic call makes at most MAX_RETRIES + 1 = 4 fetch
\* attempts, and a call whose every attempt is answered 429 returns null
\* after the fourth.
C11_RetriesCapped ==
    \A p \in Callers :
        /\ caller[p].retryCount + 1 <= MAX_RETRIES + 1
        /\ caller[p].lastCall.response = Http(429)
           => /\ caller[p].lastCall.retries = MAX_RETRIES
              /\ caller[p].lastCall.value = Null

\* A search was answered 429 four times and the resolve returned
C11_Witness ==
    \E p \in Callers :
        /\ Returns(p) /\ ret[p].fetches = 4
        /\ caller[p].lastCall.response = Http(429)
        /\ caller[p].lastCall.retries = 3

\* A failure of a request that is no 429: fetch throws, or a non-OK status
NonRateLimitFailures == {Threw, Http(500)}

\* C13: when fetch throws or the response is non-OK with a status other than
\* 429, fetchOpenCritic returns null in the same turn: no backoff wait, no
\* further fetch; a call whose first attempt fails so has made one fetch.
C13_FailureStep ==
    \A p \in Callers : \A r \in NonRateLimitFailures :
        Respond(p, r) =>
            /\ caller'[p].pc # "backoff" /\ caller'[p].pc # "fetching"
            /\ caller'[p].wakeAt = caller[p].wakeAt
            /\ caller'[p].lastCall = [retries |-> caller[p].retryCount,
                                      response |-> r, value |-> Null]
            /\ caller'[p].fetches = caller[p].fetches
            /\ fetchCount' = fetchCount
            /\ (caller[p].phase = "search" /\ caller[p].retryCount = 0)
               => caller'[p].fetches = 1

C13_NoRetryOnFailure == [][C13_FailureStep]_vars

\* The first attempt of a search got HTTP 500 and the call returned after
\* its one fetch
C13_Witness ==
    \E p \in Callers :
        /\ Returns(p) /\ ret[p].fetches = 1
        /\ caller[p].lastCall = [retries |-> 0, response |-> Http(500), value |-> Null]

\* C12: the retries of makeRequest after HTTP 429 are capped: a call makes no
\* more attempts than the capped retry count of the engine allows (three
\* retries, four attempts) and then returns.
C12_RetriesCapped ==
    \A p \in Callers : igdb[p].fetches <= MAX_RETRIES + 1

\* ========================================================================
\* Claims about the order and the shape of availability resolution
\* ========================================================================
\* resolvePlatformData starts to run for p in this step
C14_ResolveStep(p) ==
    wdCalls' = wdCalls + 1 /\ wd'[p].callNo = wdCalls' /\ ~wd'[p].batch
C14_Returned(p, r) ==
    wd'[p].pc = "idle" /\ wdRet'[p] # NoRet /\ wdRet'[p].results = <<r>>

C14_CacheFirst ==
    \A p \in Callers : C14_ResolveStep(p) =>
        LET g == wd'[p].games[1]
            row == storage[<<"xcpw_cache_", g.appid>>]
        IN  (row # NoRow /\ ~Expired(row)) =>
                /\ wdQueries' = wdQueries
                /\ \E r \in WdResults(wdRet'[p]) :
                      /\ C14_Returned(p, r) /\ r.fromCache
                      /\ r.entry.appid = g.appid
                      /\ r.entry.resolvedAt = row.resolvedAt
                      /\ r.entry.source = row.source
                      /\ \A pl \in PLATFORMS :
                            r.entry.platforms[pl].status = row.platforms[pl].status
                      /\ row.gameName = g.gameName => (r.entry = row /\ storage' = storage)

C14_OverrideSecond ==
    \A p \in Callers : C14_ResolveStep(p) =>
        LET g == wd'[p].games[1]
            row == storage[<<"xcpw_cache_", g.appid>>]
        IN  ((row = NoRow \/ Expired(row)) /\ MANUAL_OVERRIDES[g.appid] # Null) =>
                /\ wdQueries' = wdQueries
                /\ \E r \in WdResults(wdRet'[p]) :
                      /\ C14_Returned(p, r) /\ ~r.fromCache
                      /\ r.entry.source = "manual"
                      /\ r.entry.appid = g.appid
                      /\ storage'[<<"xcpw_cache_", g.appid>>] = r.entry

C14_NetworkLast ==
    \A p \in Callers : C14_ResolveStep(p) =>
        LET g == wd'[p].games[1]
            row == storage[<<"xcpw_cache_", g.appid>>]
        IN  (wdQueries' # wdQueries) <=>
                ((row = NoRow \/ Expired(row)) /\ MANUAL_OVERRIDES[g.appid] = Null)

\* C14: resolvePlatformData serves a valid row with fromCache = true and no
\* query; on a miss for an item with a manual override it saves and returns
\* an entry of source 'manual' with fromCache = false and no query; it
\* queries Wikidata exactly when the cache misses and no override exists.
C14_Priority == [][C14_CacheFirst /\ C14_OverrideSecond /\ C14_NetworkLast]_vars

\* The row of an item with a manual override was served from the cache
C14_Witness ==
    \E p \in Callers : \E r \in WdResults(wdRet[p] @@ [results |-> <<>>]) :
        /\ wd[p].pc = "idle" /\ ~wdRet[p].batch
        /\ r.fromCache /\ r.entry.source = "manual" /\ MANUAL_OVERRIDES[r.appid] # Null

\* C18: forceRefresh returns fromCache = false, whatever other resolves of
\* the same item do between the removal of the row and the read of the cache.
C18_RefreshNotFromCache ==
    \A p \in Callers :
        (wd[p].pc = "idle" /\ wdRet[p] # NoRet /\ wdRet[p].refresh)
        => \A r \in WdResults(wdRet[p]) : ~r.fromCache

\* The ids of the items of a batch that have neither a valid row nor a manual
\* override, in the order of the input
C17_NeedsQuery(games) ==
    SelectSeq(games, LAMBDA g :
        /\ storage[<<"xcpw_cache_", g.appid>>] = NoRow
           \/ Expired(storage[<<"xcpw_cache_", g.appid>>])
        /\ MANUAL_OVERRIDES[g.appid] = Null)

C17_CallStep ==
    \A p \in Callers : \A games \in WdBatches :
        batchResolvePlatformData(p, games) =>
            IF C17_NeedsQuery(games) = <<>>
            THEN /\ wdQueries' = wdQueries
                 /\ wd'[p].pc = "idle"
                 /\ Len(wdRet'[p].results) = Len(games)
            ELSE /\ wdQueries' = wdQueries + 1
                 /\ wd'[p].pc = "query"
                 /\ wd'[p].games = C17_NeedsQuery(games)

\* The batch call that waits for its one query returns when the query does
C17_AnswerStep ==
    \A p \in Callers :
        (wd[p].pc = "query" /\ wd[p].batch /\ wd'[p] # wd[p]) =>
            /\ wdQueries' = wdQueries
            /\ wd'[p].pc = "idle"
            /\ wdRet'[p].queryNo = wd[p].queryNo

\* C17: batchResolvePlatformData makes at most one batched query per call;
\* the ids it passes are exactly the input ids with neither a valid row nor
\* a manual override, and it makes no query when there is no such id.
C17_OneBatchedQuery == [][C17_CallStep /\ C17_AnswerStep]_vars

\* A batch returned whose query carried fewer ids than the input had, and a
\* batch returned without any query
C17_Witness ==
    /\ wd["c1"].pc = "idle" /\ wdRet["c1"] # NoRet /\ wdRet["c1"].batch
    /\ wdRet["c1"].queryNo = 1 /\ Len(wdRet["c1"].results) = 3
    /\ wd["c1"].games = <<Game("10", <<"c">>), Game("20", <<"c">>)>>
    /\ wd["c2"].pc = "idle" /\ wdRet["c2"] # NoRet /\ wdRet["c2"].batch
    /\ wdRet["c2"].queryNo = 0 /\ Len(wdRet["c2"].results) = 1
    /\ ~wdRet["c2"].results[1].fromCache

\* ========================================================================
\* Claims about cache hits of the review-score client
\* ========================================================================
C15_HitStep ==
    \A p \in Callers :
        (calls' = calls + 1 /\ caller'[p].callNo = calls')
        => LET row == storage[<<"xcpw_review_", caller'[p].appid>>]
           IN  (row # NoRow /\ now < row.resolvedAt + row.ttlDays * 86400000)
               => /\ ret'[p] = [entry |-> row, fromCache |-> TRUE,
                                saved |-> FALSE, fetches |-> 0]
                  /\ caller'[p].pc = "idle"
                  /\ caller'[p].fetches = 0
                  /\ fetchCount' = fetchCount
                  /\ tickets' = tickets
                  /\ requestQueue' = requestQueue
                  /\ storage' = storage

\* C15: resolveReviewScore with a valid row returns exactly the stored entry
\* with fromCache = true, fetches nothing and writes nothing to the cache.
C15_HitReturnsRow == [][C15_HitStep]_vars

\* A resolve was served a row that holds a score
C15_Witness ==
    \E p \in Callers :
        /\ Returns(p) /\ ret[p].fromCache /\ ret[p].entry.score # Null
        /\ ret[p].entry = storage[<<"xcpw_review_", caller[p].appid>>]
        /\ fetchCount = 2

C16_CachedAtCall(b, appid) ==
    LET row == b.rows[<<"xcpw_review_", appid>>]
    IN  row # NoRow /\ now < row.resolvedAt + row.ttlDays * 86400000
C16_Ids(games) == {games[i].appid : i \in 1..Len(games)}

\* The batch that returns in this step holds one result for each input item:
\* the stored row with fromCache = true for an item cached at the call; if
\* every item was cached, or there was no item, no fetch was made since the
\* call
C16_ReturnStep ==
    \A p \in Callers : (batch'[p].pc = "done" /\ batch'[p] # batch[p]) =>
        LET b == batch'[p]
        IN  /\ Len(b.results) = Len(b.games)
            /\ C16_Ids(b.results) = C16_Ids(b.games)
            /\ \A i \in 1..Len(b.results) :
                  C16_CachedAtCall(b, b.results[i].appid)
                  => /\ b.results[i].fromCache
                     /\ b.results[i].entry = b.rows[<<"xcpw_review_", b.results[i].appid>>]
            /\ (\A a \in C16_Ids(b.games) : C16_CachedAtCall(b, a))
               => fetchCount' = b.fetchesBefore

\* A fetch made during a batch is for an input item that had no valid row
C16_FetchStep ==
    \A p \in Callers :
        (batch[p].pc \notin {"idle", "done"} /\ fetchCount' = fetchCount + 1)
        => \E q \in Callers :
              /\ caller[q].pc = "queued" /\ caller'[q].pc = "fetching"
              /\ q = p
              /\ caller[q].appid \in C16_Ids(batch[p].games)
              /\ ~C16_CachedAtCall(batch[p], caller[q].appid)

\* C16: batchResolveReviewScores fetches only for input items without a
\* valid row; with all N items cached it returns N entries with
\* fromCache = true and fetches nothing; with an empty input it returns an
\* empty map and fetches nothing.
C16_BatchUsesCache == [][C16_ReturnStep /\ C16_FetchStep]_vars

\* A batch of two cached items returned, after an earlier batch had fetched
C16_Witness ==
    /\ batch["c1"].pc = "done" /\ Len(batch["c1"].games) = 2
    /\ \A a \in C16_Ids(batch["c1"].games) : C16_CachedAtCall(batch["c1"], a)
    /\ \A i \in 1..2 : batch["c1"].results[i].fromCache
    /\ batch["c1"].fetchesBefore >= 2 /\ fetchCount = batch["c1"].fetchesBefore

C19_Statuses == {"available", "unavailable", "unknown"}
C19_WellFormed(entry) ==
    /\ DOMAIN entry.platforms = {"nintendo", "playstation", "xbox"}
    /\ \A pl \in DOMAIN entry.platforms :
          /\ entry.platforms[pl].status \in C19_Statuses
          /\ entry.platforms[pl].storeUrl # Null
          /\ entry.platforms[pl].storeUrl.kind # "empty"
C19_FollowsOverride(entry) ==
    entry.source = "manual" =>
        \A pl \in {"nintendo", "playstation", "xbox"} :
            entry.platforms[pl].status =
                IF MANUAL_OVERRIDES[entry.appid][pl] = "" THEN "unknown"
                ELSE MANUAL_OVERRIDES[entry.appid][pl]
C19_Returned(r) ==
    IF r = NoRet THEN {} ELSE {r.results[i].entry : i \in 1..Len(r.results)}

\* C19: every availability entry that either resolver returns or stores
\* holds the three platforms nintendo, playstation and xbox, each with a
\* status among available, unavailable and unknown and a non-empty store URL;
\* a platform that a manual override leaves out has status 'unknown'.
C19_CompleteEntries ==
    /\ \A a \in AvailAppIds :
          storage[<<"xcpw_cache_", a>>] # NoRow
          => /\ C19_WellFormed(storage[<<"xcpw_cache_", a>>])
             /\ C19_FollowsOverride(storage[<<"xcpw_cache_", a>>])
    /\ \A p \in Callers :
          \A e \in C19_Returned(wdRet[p]) \cup C19_Returned(igdbRet[p]) :
              C19_WellFormed(e) /\ C19_FollowsOverride(e)

\* The entry of the item whose manual override leaves PlayStation out was
\* returned and stored
C19_Witness ==
    /\ \E e \in C19_Returned(wdRet["c1"]) :
          /\ e.source = "manual" /\ e.appid = "30"
          /\ e.platforms["playstation"].status = "unknown"
          /\ e.platforms["nintendo"].status = "available"
    /\ storage[<<"xcpw_cache_", "30">>] # NoRow
    /\ storage[<<"xcpw_cache_", "30">>].source = "manual"

\* ========================================================================
\* Claims about failures of the cache store
\* ========================================================================
\* C20: resolveReviewScore rejects only when a dependency is not wired up;
\* a failing read or write of the cache store still resolves to an entry.
C20_NeverRejects ==
    \A p \in Callers : (caller[p].pc = "idle" /\ ret[p] # NoRet) => ret[p] # Rejected

\* ========================================================================
\* Claims about the name matcher
\* ========================================================================
C24_Called == probe.f = "calculateSimilarity" /\ probe.done
C24_IsOne(x) == x.n = x.d /\ x.d > 0

\* C24: calculateSimilarity(a, b) is 1 whenever a and b have the same
\* normalized name: for a = b, for two empty strings, and for names that
\* differ in letter case, punctuation or runs of whitespace only.
C24_EqualNamesScoreOne ==
    C24_Called =>
        /\ normalizeGameName(probe.args[1]) = normalizeGameName(probe.args[2])
           => C24_IsOne(probe.result)
        /\ probe.args[1] = probe.args[2] => C24_IsOne(probe.result)
        /\ toLowerCase(probe.args[1]) = toLowerCase(probe.args[2])
           => C24_IsOne(probe.result)

\* Two names that differ in case, punctuation and whitespace scored 1
C24_Witness ==
    /\ C24_Called
    /\ probe.args = << <<"B", "-", " ">>, <<" ", " ", "b">> >>
    /\ C24_IsOne(probe.result)

\* t occurs in s; the words of s between its spaces
C25_Contains(s, t) ==
    \E i \in 0..(Len(s) - Len(t)) : \A j \in 1..Len(t) : s[i + j] = t[j]
C25_WordsOf(s) ==
    {SubSeq(s, i, j) : <<i, j>> \in
        {ij \in (1..Len(s)) \X (1..Len(s)) :
            /\ ij[1] <= ij[2]
            /\ \A k \in ij[1]..ij[2] : s[k] # " "
            /\ ij[1] = 1 \/ s[ij[1] - 1] = " "
            /\ ij[2] = Len(s) \/ s[ij[2] + 1] = " "}}

C26_Called == probe.f = "searchGame" /\ probe.done
C26_Similarity(i) == calculateSimilarity(probe.args[1], probe.args[2].v[i].name)
\* The candidates no other candidate beats
C26_Best ==
    {i \in 1..Len(probe.args[2].v) :
        \A j \in 1..Len(probe.args[2].v) :
            C26_Similarity(j).n * C26_Similarity(i).d
            <= C26_Similarity(i).n * C26_Similarity(j).d}

\* C26: searchGame returns the candidate of greatest similarity to the
\* query, the first of them in the list if several share it, and null when
\* the list is empty or the greatest similarity is below 0.5.
C26_BestFirstCandidate ==
    C26_Called =>
        LET list == probe.args[2].v
        IN  /\ ~probe.result.threw
            /\ IF list = <<>> \/ \A i \in 1..Len(list) :
                                   2 * C26_Similarity(i).n < C26_Similarity(i).d
               THEN probe.result.value = Null
               ELSE probe.result.value =
                        list[CHOOSE i \in C26_Best : \A j \in C26_Best : i <= j]

\* Two candidates of similarity 1 to the query: the first was returned
C26_Witness ==
    /\ C26_Called
    /\ probe.args[1] = <<"a", " ", "b">>
    /\ probe.args[2].v = <<[id |-> 2, name |-> <<"b", " ", "A">>],
                           [id |-> 1, name |-> <<"a", " ", "b">>]>>
    /\ probe.result.value.id = 2

\* ========================================================================
\* Claims about the score conversion
\* ========================================================================
C27_Called == probe.f = "queryReviewScore" /\ probe.done

\* C27: queryReviewScore returns null for a detail record whose
\* topCriticScore is negative, and a score object with score 0 for a
\* topCriticScore of 0.
C27_SentinelNotZero ==
    C27_Called =>
        /\ ~probe.result.threw
        /\ probe.args[1].topCriticScore < 0 => probe.result.value = Null
        /\ probe.args[1].topCriticScore = 0
           => /\ probe.result.value # Null
              /\ probe.result.value.score = 0
              /\ ~probe.result.value.isNaN

\* A detail record with topCriticScore 0 gave a score object
C27_Witness ==
    /\ C27_Called
    /\ probe.args[1].topCriticScore = 0
    /\ probe.result.value # Null /\ probe.result.value.score = 0

\* ========================================================================
\* Claims about the backoff of the OpenCritic requests
\* ========================================================================
\* A 429 arrives and is to be retried: the timer is set to 1000, 2000 or
\* 4000 ms from now, by the number of retries made so far
C28_BackoffSet ==
    \A p \in Callers :
        (caller[p].pc = "fetching" /\ caller'[p].pc = "backoff")
        => /\ caller[p].retryCount \in 0..2
           /\ caller'[p].retryCount = caller[p].retryCount
           /\ caller'[p].wakeAt = now + (CASE caller[p].retryCount = 0 -> 1000
                                           [] caller[p].retryCount = 1 -> 2000
                                           [] caller[p].retryCount = 2 -> 4000)

\* The next attempt starts only from the backoff, once the timer is due
C28_RetryAfterTimer ==
    \A p \in Callers :
        (caller'[p].retryCount > caller[p].retryCount)
        => /\ caller[p].pc = "backoff"
           /\ caller'[p].retryCount = caller[p].retryCount + 1
           /\ now >= caller[p].wakeAt
           /\ caller'[p].pc = "queued"

\* C28: the k-th retry of a call is not issued before 1000 * 2^(k-1) ms
\* have passed since its 429 arrived: 1000, 2000 and 4000 ms for the
\* first, second and third retry.
C28_ExponentialBackoff == [][C28_BackoffSet /\ C28_RetryAfterTimer]_vars

\* The third retry of a call has been issued
C28_Witness ==
    \E p \in Callers :
        /\ caller[p].retryCount = 3 /\ caller[p].pc = "fetching"
        /\ now >= StartTime + 7000

\* ========================================================================
\* Claims about the cache as seen by several callers
\* ========================================================================
C22_SharedRowStep ==
    \A p \in Callers : \A q \in Callers \ {p} :
        (/\ caller[q].pc = "idle" /\ ret[q] # NoRet /\ ret[q].saved
         /\ storage[<<"xcpw_review_", ret[q].entry.appid>>] = ret[q].entry
         /\ now < ret[q].entry.resolvedAt + ret[q].entry.ttlDays * 86400000
         /\ calls' = calls + 1 /\ caller'[p].callNo = calls'
         /\ caller'[p].appid = ret[q].entry.appid)
        => /\ ret'[p] # NoRet
           /\ ret'[p].fromCache
           /\ ret'[p].entry = ret[q].entry
           /\ caller'[p].pc = "idle"
           /\ fetchCount' = fetchCount
           /\ tickets' = tickets

\* C22: every getFromReviewCache reads the storage: once one caller's
\* saveToReviewCache has completed, a resolveReviewScore of the same item
\* that another caller starts afterwards, within the time-to-live, returns
\* the row with fromCache = true and fetches nothing.
C22_NoMemoryFastPath == [][C22_SharedRowStep]_vars

\* c2 was served the row that c1's resolve had saved
C22_Witness ==
    /\ caller["c1"].pc = "idle" /\ ret["c1"] # NoRet /\ ret["c1"].saved
    /\ caller["c2"].pc = "idle" /\ ret["c2"] # NoRet /\ ret["c2"].fromCache
    /\ ret["c2"].entry = ret["c1"].entry
    /\ caller["c2"].callNo > caller["c1"].callNo

C23_ReadStep ==
    (probe' # probe /\ probe'.f = "clearReviewCache" /\ ~probe'.done)
    => /\ storage' = storage
       /\ probe'.args = {k \in StorageKeys :
                            storage[k] # NoRow /\ k[1] = "xcpw_review_"}

C23_RemoveStep ==
    (probe # NoProbe /\ probe.f = "clearReviewCache" /\ ~probe.done /\ probe'.done)
    => /\ \A k \in StorageKeys :
            /\ k \in probe.args => storage'[k] = NoRow
            /\ k \notin probe.args => storage'[k] = storage[k]
            /\ k[1] # "xcpw_review_" => storage'[k] = storage[k]
       /\ probe'.result.removeCalls = (IF probe.args = {} THEN 0 ELSE 1)
       /\ probe.args = {} => storage' = storage

\* C23: clearReviewCache removes exactly the stored keys that start with
\* 'xcpw_review_' (those it read) and leaves every other key as it was;
\* when no key matches it calls no removal.
C23_ClearsOnlyReviewRows == [][C23_ReadStep /\ C23_RemoveStep]_vars

\* a clear removed a review row while an availability row stayed
C23_Witness ==
    /\ probe # NoProbe /\ probe.f = "clearReviewCache" /\ probe.done
    /\ probe.args = {<<"xcpw_review_", "10">>}
    /\ storage[<<"xcpw_review_", "10">>] = NoRow
    /\ storage[<<"xcpw_cache_", "10">>] # NoRow
    /\ storage[<<"xcpw_cache_", "30">>] # NoRow

\* ========================================================================
\* Claims about the maps that the batch resolvers return
\* ========================================================================
C29_ReturnStep ==
    \A p \in Callers : (batch'[p].pc = "done" /\ batch'[p] # batch[p]) =>
        LET b == batch'[p]
        IN  /\ {b.results[i].appid : i \in 1..Len(b.results)}
                 = {b.games[i].appid : i \in 1..Len(b.games)}
            /\ \A i \in 1..Len(b.results) :
                  b.results[i].fromCache
                  <=> b.results[i].entry = b.rows[<<"xcpw_review_", b.results[i].appid>>]

\* C29: the map that batchResolveReviewScores returns has an entry for every
\* input item id, and an item's fromCache flag is true exactly when its entry
\* is the row that the cache held when the batch was called, not an entry
\* that a query of this call produced.
C29_FlagTellsProvenance == [][C29_ReturnStep]_vars

\* ========================================================================
\* Claims about forceRefresh
\* ========================================================================
\* The forceRefresh of p returns in this step, and no other caller has made
\* a call
C30_ReturnsAlone(p) ==
    /\ wd[p].pc \in {"refreshing", "query"}
    /\ wd'[p].pc = "idle" /\ wdRet'[p] # NoRet /\ wdRet'[p].refresh
    /\ \A q \in Callers \ {p} : wd[q] = IdleWd /\ wd'[q] = IdleWd

C30_ReturnStep ==
    \A p \in Callers : C30_ReturnsAlone(p) =>
        LET r == wdRet'[p].results[1]
            row == storage'[<<"xcpw_cache_", r.appid>>]
        IN  /\ Len(wdRet'[p].results) = 1
            /\ ~r.fromCache
            /\ row = NoRow \/ row = r.entry
            /\ row = NoRow <=> wdRet'[p].threw
            /\ r.entry.resolvedAt = now

\* C30: when forceRefresh(appid, name) returns and no other caller wrote the
\* item's row meanwhile, the stored row is not the one from before the
\* refresh: it is absent (the query failed) or it is the entry that this
\* call computed and returned with fromCache = false.
C30_RefreshSupersedes == [][C30_ReturnStep]_vars

\* c1 resolved the item, later refreshed it, and the refresh stored the
\* entry of its own query
C30_Witness ==
    /\ wd["c1"].pc = "idle" /\ wdRet["c1"] # NoRet /\ wdRet["c1"].refresh
    /\ wd["c2"] = IdleWd
    /\ wd["c1"].callNo >= 2
    /\ ~wdRet["c1"].threw
    /\ storage[<<"xcpw_cache_", "10">>] = wdRet["c1"].results[1].entry

\* ========================================================================
\* Claims about the message handlers
\* ========================================================================
\* The globals that the handling of a message reaches
C21_Needed(args) ==
    LET type == args.message.type.v
    IN  CASE type \in {"GET_PLATFORM_DATA", "UPDATE_CACHE"} ->
                 {"XCPW_Resolver", "XCPW_Cache", "XCPW_WikidataClient"}
          [] type = "GET_PLATFORM_DATA_BATCH" ->
                 {"XCPW_Resolver", "XCPW_Cache"}
                 \cup (IF args.needsQuery THEN {"XCPW_WikidataClient"} ELSE {})
          [] type \in {"GET_CACHE_STATS", "CLEAR_CACHE"} -> {"XCPW_Cache"}
          [] type \in {"GET_REVIEW_SCORE", "GET_REVIEW_SCORE_BATCH"} ->
                 {"XCPW_ReviewScores"}

\* C21: when a dependency that the handling of a valid message reaches is
\* missing, the response has success = false and an error field.
C21_MissingDependencyHasError ==
    (/\ probe # NoProbe /\ probe.f = "handleMessage" /\ probe.done
     /\ probe.args.message.type # Null
     /\ probe.args.message.type.v \in HandledTypes
     /\ probe.args.message.valid
     /\ ~(C21_Needed(probe.args) \subseteq probe.args.loaded))
    => /\ ~probe.result.success
       /\ probe.result.error # Null

\* ========================================================================
\* Claims about a cache hit under a new game name
\* ========================================================================
\* new is old under the name gameName: only the name and the search URLs of
\* the platforms of unknown status differ
C31_OnlyNameAndSearchUrls(old, new, gameName) ==
    /\ new.gameName = gameName
    /\ new.appid = old.appid
    /\ new.source = old.source
    /\ new.resolvedAt = old.resolvedAt
    /\ new.ttlDays = old.ttlDays
    /\ \A pl \in PLATFORMS :
          /\ new.platforms[pl].status = old.platforms[pl].status
          /\ old.platforms[pl].status # "unknown"
             => new.platforms[pl].storeUrl = old.platforms[pl].storeUrl
          /\ (old.platforms[pl].status = "unknown" /\ old.gameName # gameName)
             => new.platforms[pl].storeUrl = StoreUrls(pl, gameName)

\* The same for a call of resolvePlatformData of the Wikidata resolver
C31_WikidataHitStep ==
    \A p \in Callers :
        (/\ wdCalls' = wdCalls + 1 /\ wd'[p].callNo = wdCalls' /\ ~wd'[p].batch
         /\ wd'[p].pc = "idle" /\ wdRet'[p] # NoRet /\ wdRet'[p].results[1].fromCache)
        => LET r == wdRet'[p].results[1]
               key == <<"xcpw_cache_", r.appid>>
           IN  /\ storage'[key] = r.entry
               /\ C31_OnlyNameAndSearchUrls(storage[key], r.entry, wd'[p].games[1].gameName)
C31_WikidataRenameOnHit == [][C31_WikidataHitStep]_vars

C31_HitStep ==
    \A p \in Callers :
        (/\ igdbCalls' = igdbCalls + 1 /\ igdb'[p].callNo = igdbCalls' /\ ~igdb'[p].batch
         /\ ~igdb'[p].test
         /\ igdb'[p].pc = "idle" /\ igdbRet'[p] # NoRet /\ igdbRet'[p].results[1].fromCache)
        => LET r == igdbRet'[p].results[1]
               key == <<"xcpw_cache_", r.appid>>
           IN  /\ storage'[key] = r.entry
               /\ C31_OnlyNameAndSearchUrls(storage[key], r.entry, igdb'[p].games[1].gameName)

\* C31: a cache hit of resolvePlatformData under a name that differs from
\* the stored one saves the entry with the new name and with new search
\* URLs for the platforms of unknown status only; every status, the storeUrl
\* of the other platforms, source, resolvedAt and ttlDays stay as they were.
C31_RenameOnHit == [][C31_HitStep]_vars

\* ========================================================================
\* Claims about expired rows
\* ========================================================================
C32_Stale(row) == row # NoRow /\ now >= row.resolvedAt + row.ttlDays * 86400000
C32_ReviewKeys == {<<"xcpw_review_", a>> : a \in AppIds}

\* A stale row changes only when a resolve of its item saves a new entry or
\* when a clear removes it; a call that finds it stale leaves it in place
C32_StaleRowStays ==
    \A k \in C32_ReviewKeys :
        (C32_Stale(storage[k]) /\ storage'[k] # storage[k])
        => \/ /\ \E p \in Callers :
                    /\ caller[p].pc = "fetching" /\ caller[p].appid = k[2]
                    /\ caller'[p].pc = "idle"
                    /\ ret'[p] # NoRet /\ ret'[p].saved /\ ret'[p].entry = storage'[k]
              /\ storage'[k].resolvedAt = now
           \/ /\ probe.f = "clearReviewCache" /\ ~probe.done /\ probe'.done
              /\ storage'[k] = NoRow

C32_CallOnStaleRow ==
    \A p \in Callers :
        (/\ calls' = calls + 1 /\ caller'[p].callNo = calls'
         /\ C32_Stale(storage[<<"xcpw_review_", caller'[p].appid>>]))
        => /\ storage' = storage
           /\ ret'[p] = NoRet
           /\ caller'[p].pc # "idle"

C32_StatsStep ==
    (probe' # probe /\ probe'.f = "getReviewCacheStats")
    => /\ storage' = storage
       /\ probe'.result.count
            = Cardinality({k \in C32_ReviewKeys : storage[k] # NoRow})

\* C32: a row past its time-to-live is a miss for getFromReviewCache but is
\* neither deleted nor changed by the read; it stays in the storage and in
\* the count of getReviewCacheStats until a later resolve overwrites it or
\* clearReviewCache removes it.
C32_ExpiryIsLogical == [][C32_StaleRowStays /\ C32_CallOnStaleRow /\ C32_StatsStep]_vars

\* a resolve missed on the stale row and waits for its turn, and the
\* statistics read meanwhile count the row
C32_Witness ==
    /\ C32_Stale(storage[<<"xcpw_review_", "10">>])
    /\ caller["c1"].appid = "10" /\ caller["c1"].pc \in {"queued", "fetching"}
    /\ probe.f = "getReviewCacheStats" /\ probe.done
    /\ probe.args = now
    /\ probe.result.count = 1
    /\ probe.result.oldestEntry = [t |-> "number", v |-> storage[<<"xcpw_review_", "10">>].resolvedAt]

\* ========================================================================
\* Claims about createSlug
\* ========================================================================
C33_Called == probe.f = "createSlug" /\ probe.done
C33_SlugChars == {"a", "b", "3", "_", "-"}
C33_CharsOk ==
    C33_Called =>
        /\ \A i \in 1..Len(probe.result) : probe.result[i] \in C33_SlugChars
        /\ \A i \in 1..(Len(probe.result) - 1) :
              ~(probe.result[i] = "-" /\ probe.result[i + 1] = "-")
C33_Idempotent == C33_Called => createSlug(probe.result) = probe.result
C33_TrimHead(s) == IF s # <<>> /\ Head(s) \in {" ", "\t"} THEN Tail(s) ELSE s
C33_TrimLast(s) ==
    IF s # <<>> /\ s[Len(s)] \in {" ", "\t"} THEN SubSeq(s, 1, Len(s) - 1) ELSE s
C33_IgnoresOuterWhitespace ==
    C33_Called =>
        /\ createSlug(C33_TrimHead(probe.args[1])) = probe.result
        /\ createSlug(C33_TrimLast(probe.args[1])) = probe.result

\* C33: the slug of a name holds only lowercase letters, digits, underscores
\* and hyphens, no whitespace and no two hyphens in a row; whitespace at the
\* start or the end of the name does not change it; and the slug of a slug
\* is the slug itself.
C33_SlugNormalised == C33_CharsOk /\ C33_IgnoresOuterWhitespace /\ C33_Idempotent

\* ========================================================================
\* Claims about the batch resolver and the single resolver on a cache hit
\* ========================================================================
C34_BatchCallStep ==
    \A p \in Callers : \A games \in WdBatches :
        batchResolvePlatformData(p, games) =>
            \A i \in 1..Len(games) :
                LET g == games[i]
                    key == <<"xcpw_cache_", g.appid>>
                    cached == getFromCache(g.appid)
                    single == updateCachedEntryIfNeeded(cached, g.gameName)
                IN  cached # Null =>
                        /\ \E j \in 1..Len(wd'[p].results) :
                              /\ wd'[p].results[j].appid = g.appid
                              /\ wd'[p].results[j].fromCache
                              /\ wd'[p].results[j].entry = single
                              /\ wd'[p].results[j].entry.gameName = g.gameName
                        /\ storage'[key] = single

\* C34: for an item with a valid row, batchResolvePlatformData returns the
\* entry and leaves the row that resolvePlatformData would for the same
\* appid and name, also when the name differs from the stored one.
C34_BatchHitLikeSingleHit == [][C34_BatchCallStep]_vars

\* ========================================================================
\* Claims about a failing write of the review cache
\* ========================================================================
C35_DetailReturnStep ==
    \A p \in Callers :
        (/\ caller[p].pc = "fetching" /\ caller[p].phase = "detail"
         /\ caller'[p].pc = "idle" /\ ret'[p] # NoRet /\ ret'[p] # Rejected)
        => LET found == reviewScoreFromDetails(caller'[p].lastCall.value)
           IN  (~found.threw /\ found.value # Null)
               => ret'[p].entry.score = found.value

\* C35: when the query of resolveReviewScore ends with a score, the entry
\* returned carries that score, also when the write of the cache fails.
C35_ScoreSurvivesWriteFailure == [][C35_DetailReturnStep]_vars

\* ========================================================================
\* Claims about the source and the statuses of an availability entry
\* ========================================================================
C36_Consistent(entry) ==
    /\ entry.source \in {"fallback", "wikidata", "manual"}
    /\ entry.source = "fallback"
       => \A pl \in PLATFORMS : entry.platforms[pl].status = "unknown"
    /\ entry.source = "wikidata"
       => \A pl \in PLATFORMS : entry.platforms[pl].status \in {"available", "unavailable"}
    /\ entry.source = "manual" => MANUAL_OVERRIDES[entry.appid] # Null

\* C36: in every entry that the Wikidata resolver returns or stores, source
\* 'fallback' goes with three unknown statuses, source 'wikidata' with no
\* unknown status, and source 'manual' only with an item that has a manual
\* override.
C36_SourceMatchesStatuses ==
    /\ \A p \in Callers :
          (wd[p].pc = "idle" /\ wdRet[p] # NoRet)
          => \A i \in 1..Len(wdRet[p].results) : C36_Consistent(wdRet[p].results[i].entry)
    /\ \A a \in AvailAppIds :
          storage[<<"xcpw_cache_", a>>] # NoRow
          => C36_Consistent(storage[<<"xcpw_cache_", a>>])

\* one batch returned an entry of each source
C36_Witness ==
    \E p \in Callers :
        /\ wd[p].pc = "idle" /\ wdRet[p] # NoRet /\ ~wdRet[p].threw
        /\ \A src \in {"fallback", "wikidata", "manual"} :
              \E i \in 1..Len(wdRet[p].results) : wdRet[p].results[i].entry.source = src
        /\ \E i \in 1..Len(wdRet[p].results) :
              /\ wdRet[p].results[i].entry.platforms["nintendo"].status = "available"
              /\ wdRet[p].results[i].entry.platforms["playstation"].status = "unavailable"

\* ========================================================================
\* Claims about progress of the request queue
\* ========================================================================
\* C37: provided timers fire, every caller that waits in rateLimit() is
\* eventually released, whatever becomes of the requests of the callers
\* before it.
C37_QueueNeverStalls ==
    \A p \in Callers : (caller[p].pc = "queued") ~> (caller[p].pc = "fetching")

\* c2 was released while c1, released before it, had been answered 429 and
\* waits for its third retry
C37_Witness ==
    /\ caller["c1"].pc = "backoff" /\ caller["c1"].retryCount = 2
    /\ caller["c2"].pc = "fetching"
    /\ caller["c2"].callNo > caller["c1"].callNo


\* ------------------------------------------------------------------------
\* C38: token manager under interleavings with saveCredentials and
\* clearCredentials

\* A getValidToken call has returned a token to p
C38_Returned(p) == tm.ret[p] # NoRet /\ tm.ret[p].value # Null

\* saveCredentials has finished, no getValidToken call is in flight and a
\* token is stored
C38_Quiescent ==
    /\ tm.save = "idle"
    /\ \A p \in Callers : tm.valid[p].pc = "idle"
    /\ tm.credentials # Null
    /\ tm.token # Null

\* C38 (first half): every pair getValidToken returns holds an access token
\* and the client id that token was acquired with
C38_ReturnedPairMatches ==
    \A p \in Callers :
        C38_Returned(p) => tm.ret[p].value.accessToken.issuedTo = tm.ret[p].value.clientId

\* C38 (second half): once saveCredentials and every getValidToken call have
\* finished, a stored token was acquired with the credentials now stored
C38_NoStaleTokenStored ==
    C38_Quiescent => tm.token.accessToken.issuedTo = tm.credentials.clientId

\* C38: under every interleaving of getValidToken with saveCredentials or
\* clearCredentials, getValidToken never returns an access token paired with
\* a client id other than the one the token was acquired with, and once
\* saveCredentials and all in-flight acquisitions have finished no token
\* acquired with the previous credentials remains stored
C38_TokenFollowsCredentials == C38_ReturnedPairMatches /\ C38_NoStaleTokenStored

=============================================================================
